---------------------------- MODULE Spec2Model ----------------------------
(***************************************************************************)
(* A model of the WebSocket rooms of the coolslides dev server             *)
(* (apps/devserver/src/rooms.rs): one Room with its roster, bounded        *)
(* message history, recording flag and buffer, current-state snapshot and  *)
(* broadcast channel, driven by concurrent callers of its async methods.   *)
(*                                                                         *)
(* Granularity.  Every `.await` on a tokio RwLock is a point where other   *)
(* tasks run, so each critical section is one action.  A section that      *)
(* holds one lock while it waits for another lock or reads the clock is    *)
(* split at that point and the held lock is a variable (is_recording_lock, *)
(* recorded_lock).  A lock that is taken and dropped inside one action is  *)
(* free in every state of the model.                                       *)
(*                                                                         *)
(* The broadcast channel is modelled as the log `chan` of every message    *)
(* handed to broadcast_tx.send, in the order of the sends; a receiver is a *)
(* cursor into that log which starts at the tail when it subscribes.       *)
(*                                                                         *)
(* The RoomManager's registry and the set-up of connections are modelled   *)
(* over Rooms of their own (rooms, heap), since a registry can lose a Room *)
(* that a connection still holds.                                          *)
(*                                                                         *)
(* The select loop of handle_websocket_connection is modelled on the one   *)
(* Room: conns has, for every connection that got there, what its handler  *)
(* read from the socket and handed to it, and whether it is still looping. *)
(* A receiver lags once more than BufferLen messages are unread.           *)
(***************************************************************************)
EXTENDS Integers, Sequences, FiniteSets, TLC

VARIABLES
    clients,            \* Room.clients: client id -> RoomClient
    message_history,    \* Room.message_history (VecDeque, front = index 1)
    is_recording,       \* Room.is_recording
    recorded_messages,  \* Room.recorded_messages
    state,              \* Room.state (serde_json::Value)
    chan,               \* messages sent on Room.broadcast_tx, in send order
    rx,                 \* broadcast receivers, by creation order
    is_recording_lock,  \* task holding the write guard of is_recording, or 0
    recorded_lock,      \* task holding the write guard of recorded_messages, or 0
    now,                \* Utc::now(), in ms since Room.created_at
    pc,                 \* per task: where it is suspended
    frame,              \* per task: the locals of the call it is in
    received,           \* per receiver: what recv() has returned so far
    ops,                \* completed calls, in completion order (history variable)
    exported,           \* the last value export_recording returned
    rooms,              \* RoomManager.rooms: room id -> the Room registered under it
    heap,               \* the Rooms that Room::new has made, in the order made
    conns               \* connections that reached the select loop, by client id

vars == <<clients, message_history, is_recording, recorded_messages, state,
          chan, rx, is_recording_lock, recorded_lock, now, pc, frame,
          received, ops, exported, rooms, heap, conns>>

mgrVars == <<rooms, heap>>

wsVars == <<conns>>

roomVars == <<clients, message_history, is_recording, recorded_messages, state>>

---------------------------------------------------------------------------
(* Bounds of the model *)

NumTasks == 2        \* calls that can be in flight at once
MaxCalls == 3        \* calls of a concurrent run
MaxSeqCalls == 5     \* calls of a sequential run
MaxStateCalls == 2   \* handle_event calls of a run over every kind of event
MaxFifoCalls == 1002 \* broadcasts of the run that fills the history
MaxTime == 2         \* ms the clock advances
MaxRoomCalls == 3    \* calls of a run on the registry
MaxReplayCalls == 3  \* calls of a run of replays
MaxConnectCalls == 3 \* calls of a run of connection set-ups
MaxRosterCalls == 3  \* calls of a run on the roster
MaxWsCalls == 4      \* add_client and handle_event calls of a run of connections
MaxJoinCalls == 2    \* calls of a run of connections joining under live events
MaxReapCalls == 3    \* calls of a run of connections next to the reaper
MaxLockCalls == 3    \* calls of a run over every lock
MaxOwnCalls == 2     \* calls of a run that replays the room's own recording
MaxDelayCalls == 2   \* calls of a run of timed replays
MaxRequestCalls == 5 \* calls of a run of recording requests
MaxFrames == 2       \* inbound frames of a run of connections
MaxLookupCalls == 3  \* calls of a run of room look-ups
MaxLagCalls == 3     \* broadcasts of a run with a slow connection
MaxLagRecvs == 2     \* messages the slow connection takes from its receiver

(* Program constants *)

HistoryCap == 1000
ChannelCap == 1000
created_at == 0
InactiveMinutes == 30
MsPerMinute == 60000

Tasks == 1..NumTasks

---------------------------------------------------------------------------
(* serde_json::Value: null, string, number, object *)

Null == [k |-> "null"]
Str(s) == [k |-> "str", s |-> s]
Num(n) == [k |-> "num", n |-> n]
Obj(f) == [k |-> "obj", o |-> f]

IsNull(v) == v.k = "null"
IsObject(v) == v.k = "obj"
Keys(v) == DOMAIN v.o

(* MapInsert leaving an entry that is already there as it is *)
MapInsertKeepOld(f, key, value) ==
    [x \in (DOMAIN f) \cup {key} |-> IF x \in DOMAIN f THEN f[x] ELSE value]

(* serde_json::Map::insert: sets the key, keeps every other entry *)
MapInsert(f, key, value) ==
    [x \in (DOMAIN f) \cup {key} |-> IF x = key THEN value ELSE f[x]]

(* PresenterState, and serde's derived Deserialize / Serialize for it *)
PresenterFields == {"current_slide", "current_fragment", "deck_title", "total_slides"}

IsString(v) == v.k = "str"
(* u32: the model's integers are all below 2^32, so only the sign can fail *)
IsU32(v) == v.k = "num" /\ v.n >= 0

ParsesAsPresenterState(data) ==
    /\ IsObject(data)
    /\ PresenterFields \subseteq Keys(data)
    /\ IsString(data.o["current_slide"])
    /\ IsU32(data.o["current_fragment"])
    /\ IsString(data.o["deck_title"])
    /\ IsU32(data.o["total_slides"])

FromValue(data) ==
    [current_slide    |-> data.o["current_slide"].s,
     current_fragment |-> data.o["current_fragment"].n,
     deck_title       |-> data.o["deck_title"].s,
     total_slides     |-> data.o["total_slides"].n]

ToValue(ps) ==
    Obj([current_slide    |-> Str(ps.current_slide),
         current_fragment |-> Num(ps.current_fragment),
         deck_title       |-> Str(ps.deck_title),
         total_slides     |-> Num(ps.total_slides)])

---------------------------------------------------------------------------
(* RoomMessage *)

Join(role, client_id) == [type |-> "Join", role |-> role, client_id |-> client_id]
Event(event, timestamp) == [type |-> "Event", event |-> event, timestamp |-> timestamp]
EventData(name, data, client_id) == [name |-> name, data |-> data, client_id |-> client_id]
State(data, timestamp) == [type |-> "State", data |-> data, timestamp |-> timestamp]
Ack(id) == [type |-> "Ack", id |-> id]
Heartbeat == [type |-> "Heartbeat"]

(* serde's Serialize for RoomMessage (internally tagged, variant names in
   camelCase) and for RecordedMessage, as export_recording writes them *)
SerializeMessage(m) ==
    CASE m.type = "Join" ->
            Obj([type |-> Str("join"), role |-> Str(m.role),
                 client_id |-> Str(m.client_id)])
      [] m.type = "Event" ->
            Obj([type |-> Str("event"),
                 event |-> Obj([name |-> Str(m.event.name), data |-> m.event.data,
                                client_id |-> Str(m.event.client_id)]),
                 timestamp |-> Num(m.timestamp)])
      [] m.type = "State" ->
            Obj([type |-> Str("state"), data |-> m.data, timestamp |-> Num(m.timestamp)])
      [] m.type = "Ack" -> Obj([type |-> Str("ack"), id |-> Str(m.id)])
      [] m.type = "Heartbeat" -> Obj([type |-> Str("heartbeat")])

(* serde's Deserialize for RoomMessage, as serde_json::from_str is used on an
   inbound text frame (line 373): the variant the tag names, when every field
   of the variant is there with its type; Unparsed stands for the Err *)
Unparsed == [type |-> "Unparsed"]

HasString(v, key) == key \in Keys(v) /\ v.o[key].k = "str"

ParseMessage(json) ==
    IF ~IsObject(json) \/ ~HasString(json, "type")
    THEN Unparsed
    ELSE CASE /\ json.o["type"].s = "join"
              /\ HasString(json, "role")
              /\ json.o["role"].s \in {"presenter", "audience"}
              /\ HasString(json, "client_id") ->
                    Join(json.o["role"].s, json.o["client_id"].s)
           [] /\ json.o["type"].s = "event"
              /\ "event" \in Keys(json)
              /\ IsObject(json.o["event"])
              /\ HasString(json.o["event"], "name")
              /\ "data" \in Keys(json.o["event"])
              /\ HasString(json.o["event"], "client_id")
              /\ "timestamp" \in Keys(json)
              /\ json.o["timestamp"].k = "num" ->
                    Event(EventData(json.o["event"].o["name"].s,
                                    json.o["event"].o["data"],
                                    json.o["event"].o["client_id"].s),
                          json.o["timestamp"].n)
           [] /\ json.o["type"].s = "state"
              /\ "data" \in Keys(json)
              /\ "timestamp" \in Keys(json)
              /\ json.o["timestamp"].k = "num" ->
                    State(json.o["data"], json.o["timestamp"].n)
           [] json.o["type"].s = "ack" /\ HasString(json, "id") -> Ack(json.o["id"].s)
           [] json.o["type"].s = "heartbeat" -> Heartbeat
           [] OTHER -> Unparsed

(* axum's ws::Message, and what socket.recv() returns when it is not a frame *)
Text(json) == [ws |-> "Text", json |-> json]
Binary == [ws |-> "Binary"]
Ping == [ws |-> "Ping"]
Pong == [ws |-> "Pong"]
Close == [ws |-> "Close"]
RecvError == [ws |-> "Err"]
EndOfStream == [ws |-> "None"]

SerializeRecorded(r) ==
    Obj([message |-> SerializeMessage(r.message),
         recorded_at |-> Num(r.recorded_at),
         session_time |-> Num(r.session_time)])

RecordedMessage(message, recorded_at, session_time) ==
    [message |-> message, recorded_at |-> recorded_at, session_time |-> session_time]

---------------------------------------------------------------------------
(* The pure parts of Room's methods *)

(* PushHistory with the capacity test off by one: a history of 1001 is let through *)
PushHistoryLate(history, message) ==
    LET pushed == Append(history, message)
    IN  IF Len(pushed) > HistoryCap + 1 THEN Tail(pushed) ELSE pushed

(* PushHistory evicting at the wrong end: pop_back for pop_front *)
PushHistoryDropNewest(history, message) ==
    LET pushed == Append(history, message)
    IN  IF Len(pushed) > HistoryCap THEN SubSeq(pushed, 1, HistoryCap) ELSE pushed

(* broadcast_message, lines 130-136: push_back, then pop_front when over capacity *)
PushHistory(history, message) ==
    LET pushed == Append(history, message)
    IN  IF Len(pushed) > HistoryCap THEN Tail(pushed) ELSE pushed

(* Record putting the entry at the front of the buffer *)
RecordFront(recorded, message, recorded_at, session_time) ==
    <<RecordedMessage(message, recorded_at, session_time)>> \o recorded

(* broadcast_message, lines 148-152: the entry goes to the end of the buffer *)
Record(recorded, message, recorded_at, session_time) ==
    Append(recorded, RecordedMessage(message, recorded_at, session_time))

(* ClearRecording forgotten: the previous take is kept *)
KeepRecording(recorded) == recorded

(* start_recording, line 209 *)
ClearRecording(recorded) == <<>>

(* UpdateState without the merge branch: always a fresh one-key object *)
UpdateStateFresh(st, key, value) == Obj(MapInsert(<<>>, key, value))

(* UpdateState taking a serialized PresenterState for a value that is not an
   object: a fresh one-key object after a sync *)
UpdateStateFreshAfterSync(st, key, value) ==
    IF IsObject(st) /\ Keys(st) # PresenterFields
    THEN Obj(MapInsert(st.o, key, value))
    ELSE Obj(MapInsert(<<>>, key, value))

(* update_state, lines 189-195: insert into the object, else a fresh one-key object *)
UpdateState(st, key, value) ==
    IF IsObject(st)
    THEN Obj(MapInsert(st.o, key, value))
    ELSE Obj(MapInsert(<<>>, key, value))

(* SyncPresenterState merging the fields into the object already there *)
SyncPresenterStateMerged(presenter_state) ==
    IF IsObject(state)
    THEN Obj([x \in Keys(state) \cup PresenterFields |->
                IF x \in PresenterFields THEN ToValue(presenter_state).o[x]
                                         ELSE state.o[x]])
    ELSE ToValue(presenter_state)

(* sync_presenter_state, line 200 *)
SyncPresenterState(presenter_state) == ToValue(presenter_state)

(* StateAfterEvent storing the raw payload when it does not parse *)
StateAfterEventRaw(st, event) ==
    CASE event.name = "slide:change"    -> UpdateState(st, "currentSlide", event.data)
      [] event.name = "fragment:change" -> UpdateState(st, "currentFragment", event.data)
      [] event.name = "presenter:sync"  ->
            IF ParsesAsPresenterState(event.data)
            THEN SyncPresenterState(FromValue(event.data))
            ELSE event.data
      [] OTHER                          -> st

(* handle_event, lines 167-181: what the match does to Room.state *)
StateAfterEvent(st, event) ==
    CASE event.name = "slide:change"    -> UpdateState(st, "currentSlide", event.data)
      [] event.name = "fragment:change" -> UpdateState(st, "currentFragment", event.data)
      [] event.name = "presenter:sync" /\ ParsesAsPresenterState(event.data)
                                        -> SyncPresenterState(FromValue(event.data))
      [] OTHER                          -> st

(* Send putting the message ahead of the ones already in the channel *)
SendFront(channel, message) == <<message>> \o channel

(* broadcast::Sender::send: the message becomes the newest of the channel *)
Send(channel, message) == Append(channel, message)

(* Subscribe taken one send too late: the receiver starts after the next message *)
SubscribeLate(channel) == [next |-> Len(channel) + 2]

(* Subscribe handing out the channel from its first message *)
SubscribeFromStart(channel) == [next |-> 1]

(* broadcast::Sender::subscribe: a receiver that starts at the tail *)
Subscribe(channel) == [next |-> Len(channel) + 1]

(* broadcast::channel (line 82) rounds the capacity it is given up to a power
   of two: the channel keeps its newest BufferLen messages *)
NextPowerOfTwo(n) == CHOOSE p \in {2 ^ k : k \in 0..30} : p >= n /\ p < 2 * n

BufferLen == NextPowerOfTwo(ChannelCap)

(* the receiver's next message has been overwritten *)
Lagged(channel, receiver) == Len(channel) - receiver.next + 1 > BufferLen

(* RecvOutcome handing out the newest message and skipping what is before it *)
RecvNewest(channel, receiver) ==
    IF receiver.next > Len(channel)
    THEN [kind |-> "Pending"]
    ELSE [kind |-> "Ok", seq |-> Len(channel), msg |-> channel[Len(channel)],
          next |-> Len(channel) + 1]

(* broadcast::Receiver::recv: Err(Lagged) when the next message is gone, and the
   receiver moves on to the oldest message the channel still has; else the next
   message; else it waits.  Err(Closed) needs every Sender dropped, and the Room
   of the caller holds one *)
RecvOutcome(channel, receiver) ==
    IF Lagged(channel, receiver)
    THEN [kind |-> "Lagged", next |-> Len(channel) - BufferLen + 1]
    ELSE IF receiver.next > Len(channel)
         THEN [kind |-> "Pending"]
         ELSE [kind |-> "Ok", seq |-> receiver.next, msg |-> channel[receiver.next],
               next |-> receiver.next + 1]

---------------------------------------------------------------------------
(* Tasks *)

Idle == [op |-> "none"]
InFlight == Cardinality({t \in Tasks : pc[t] # "idle"})
(* A task is a slot for one call in flight; idle slots are interchangeable, so
   a new call takes the lowest idle one *)
MayCall(t) ==
    /\ pc[t] = "idle"
    /\ \A u \in Tasks : u < t => pc[u] # "idle"

(* fewer than n calls made so far, the ones in flight included *)
Budget(n) == Len(ops) + InFlight < n

Return(t, call) ==
    /\ pc' = [pc EXCEPT ![t] = "idle"]
    /\ frame' = [frame EXCEPT ![t] = Idle]
    /\ ops' = Append(ops, call)

Goto(t, label) == pc' = [pc EXCEPT ![t] = label]

Init ==
    /\ clients = <<>>
    /\ message_history = <<>>
    /\ is_recording = FALSE
    /\ recorded_messages = <<>>
    /\ state = Null
    /\ chan = <<>>
    /\ rx = <<>>
    /\ is_recording_lock = 0
    /\ recorded_lock = 0
    /\ now = created_at
    /\ pc = [t \in Tasks |-> "idle"]
    /\ frame = [t \in Tasks |-> Idle]
    /\ received = <<>>
    /\ ops = <<>>
    /\ exported = <<>>
    /\ rooms = <<>>
    /\ heap = <<>>
    /\ conns = <<>>

(* the clock advances *)
Tick ==
    /\ now < MaxTime
    /\ now' = now + 1
    /\ UNCHANGED <<mgrVars, wsVars, roomVars, chan, rx, is_recording_lock,
                   recorded_lock, pc, frame, received, ops, exported>>

---------------------------------------------------------------------------
(* Room::broadcast_message, lines 127-158 *)

(* a direct call *)
BroadcastMessage(t, message) ==
    /\ MayCall(t)
    /\ Goto(t, "bm_history")
    /\ frame' = [frame EXCEPT ![t] = [op |-> "broadcast_message", msg |-> message]]
    /\ UNCHANGED <<mgrVars, wsVars, roomVars, chan, rx, is_recording_lock,
                   recorded_lock, now, received, ops, exported>>

(* lines 129-137 *)
BmHistory(t) ==
    /\ pc[t] = "bm_history"
    /\ message_history' = PushHistory(message_history, frame[t].msg)
    /\ Goto(t, "bm_flag")
    /\ UNCHANGED <<mgrVars, wsVars, clients, is_recording, recorded_messages, state,
                   chan, rx, is_recording_lock, recorded_lock, now, frame, received,
                   ops, exported>>

(* BmFlag leaving the messages of a replay out of the recording *)
BmFlagLiveOnly(t) ==
    /\ pc[t] = "bm_flag"
    /\ is_recording_lock = 0
    /\ Goto(t, IF is_recording /\ frame[t].op # "replay_recording"
               THEN "bm_record" ELSE "bm_send")
    /\ UNCHANGED <<mgrVars, wsVars, roomVars, chan, rx, is_recording_lock,
                   recorded_lock, now, frame, received, ops, exported>>

(* line 141: the read guard is a temporary, dropped at the end of the statement *)
BmFlag(t) ==
    /\ pc[t] = "bm_flag"
    /\ is_recording_lock = 0
    /\ Goto(t, IF is_recording THEN "bm_record" ELSE "bm_send")
    /\ UNCHANGED <<mgrVars, wsVars, roomVars, chan, rx, is_recording_lock,
                   recorded_lock, now, frame, received, ops, exported>>

(* lines 143-146: take the write guard, read the clock for session_time *)
BmRecord(t) ==
    /\ pc[t] = "bm_record"
    /\ recorded_lock = 0
    /\ recorded_lock' = t
    /\ frame' = [frame EXCEPT ![t] = MapInsert(@, "session_time", now - created_at)]
    /\ Goto(t, "bm_push")
    /\ UNCHANGED <<mgrVars, wsVars, roomVars, chan, rx, is_recording_lock, now,
                   received, ops, exported>>

(* BmPush keeping the buffer's guard to the end of a replay *)
BmPushKeepsGuard(t) ==
    /\ pc[t] = "bm_push"
    /\ recorded_messages' = Record(recorded_messages, frame[t].msg, now,
                                   frame[t].session_time)
    /\ recorded_lock' = IF frame[t].op = "replay_recording" THEN t ELSE 0
    /\ Goto(t, "bm_send")
    /\ UNCHANGED <<mgrVars, wsVars, clients, message_history, is_recording, state, chan,
                   rx, is_recording_lock, now, frame, received, ops, exported>>

(* BmPush reading the flag again under the buffer's guard *)
BmPushReadsFlag(t) ==
    /\ pc[t] = "bm_push"
    /\ is_recording_lock = 0
    /\ recorded_messages' = Record(recorded_messages, frame[t].msg, now,
                                   frame[t].session_time)
    /\ recorded_lock' = 0
    /\ Goto(t, "bm_send")
    /\ UNCHANGED <<mgrVars, wsVars, clients, message_history, is_recording, state, chan,
                   rx, is_recording_lock, now, frame, received, ops, exported>>

(* lines 148-153: read the clock again for recorded_at, push, drop the guard *)
BmPush(t) ==
    /\ pc[t] = "bm_push"
    /\ recorded_messages' = Record(recorded_messages, frame[t].msg, now,
                                   frame[t].session_time)
    /\ recorded_lock' = 0
    /\ Goto(t, "bm_send")
    /\ UNCHANGED <<mgrVars, wsVars, clients, message_history, is_recording, state, chan,
                   rx, is_recording_lock, now, frame, received, ops, exported>>

(* DelayMs without the compression *)
DelayMsUncompressed(session_time, start_time, time_compression) ==
    session_time - start_time

(* replay_recording, line 241: the delay before a recorded message, in ms;
   time_compression is the fraction num/den, the quotient is truncated *)
DelayMs(session_time, start_time, time_compression) ==
    ((session_time - start_time) * time_compression.den) \div time_compression.num

(* ReplayFrame broadcasting the first message of the list at every turn *)
ReplayFrameFirst(queue, start_time, time_compression, messages) ==
    [op |-> "replay_recording", msg |-> messages[1].message, queue |-> queue,
     start_time |-> start_time, time_compression |-> time_compression,
     wake |-> now + DelayMs(queue[1].session_time, start_time, time_compression),
     messages |-> messages]

(* replay_recording, lines 240-243: the loop takes the next message of the
   queue and sleeps; messages is the list the call was given *)
ReplayFrame(queue, start_time, time_compression, messages) ==
    [op |-> "replay_recording", msg |-> queue[1].message, queue |-> queue,
     start_time |-> start_time, time_compression |-> time_compression,
     wake |-> now + DelayMs(queue[1].session_time, start_time, time_compression),
     messages |-> messages]

(* BmSend leaving the replay loop after the first message *)
BmSendOnce(t) ==
    /\ pc[t] = "bm_send"
    /\ chan' = Send(chan, frame[t].msg)
    /\ IF frame[t].op = "replay_recording"
       THEN Return(t, [op |-> "replay_recording", messages |-> frame[t].messages,
                       time_compression |-> frame[t].time_compression])
       ELSE Return(t, [op |-> frame[t].op, msg |-> frame[t].msg])
    /\ UNCHANGED <<mgrVars, wsVars, roomVars, rx, is_recording_lock, recorded_lock, now,
                   received, exported>>

(* line 157, and the return to the caller: add_client, handle_event and a direct
   call return; replay_recording goes round its loop (lines 240-246) *)
BmSend(t) ==
    /\ pc[t] = "bm_send"
    /\ chan' = Send(chan, frame[t].msg)
    /\ IF frame[t].op = "replay_recording"
       THEN IF Len(frame[t].queue) > 1
            THEN /\ frame' = [frame EXCEPT ![t] =
                        ReplayFrame(Tail(@.queue), @.start_time, @.time_compression,
                                    @.messages)]
                 /\ Goto(t, "rp_sleep")
                 /\ ops' = ops
            ELSE Return(t, [op |-> "replay_recording", messages |-> frame[t].messages,
                            time_compression |-> frame[t].time_compression])
       ELSE Return(t, [op |-> frame[t].op, msg |-> frame[t].msg])
    /\ UNCHANGED <<mgrVars, wsVars, roomVars, rx, is_recording_lock, recorded_lock, now,
                   received, exported>>

---------------------------------------------------------------------------
(* Room::replay_recording, lines 233-248 *)

(* lines 234-238: nothing to do for an empty list; else start_time and the loop *)
ReplayRecording(t, messages, time_compression) ==
    /\ MayCall(t)
    /\ IF messages = <<>>
       THEN /\ ops' = Append(ops, [op |-> "replay_recording", messages |-> messages,
                                   time_compression |-> time_compression])
            /\ UNCHANGED <<pc, frame>>
       ELSE /\ frame' = [frame EXCEPT ![t] =
                   ReplayFrame(messages, messages[1].session_time, time_compression,
                               messages)]
            /\ Goto(t, "rp_sleep")
            /\ ops' = ops
    /\ UNCHANGED <<mgrVars, wsVars, roomVars, chan, rx, is_recording_lock,
                   recorded_lock, now, received, exported>>

(* RpSleep handing the recorded Event to handle_event's match instead of
   straight to broadcast_message *)
RpSleepReenter(t) ==
    /\ pc[t] = "rp_sleep"
    /\ now >= frame[t].wake
    /\ Goto(t, IF frame[t].msg.type = "Event" THEN "he_state" ELSE "bm_history")
    /\ UNCHANGED <<mgrVars, wsVars, roomVars, chan, rx, is_recording_lock,
                   recorded_lock, now, frame, received, ops, exported>>

(* line 243: the sleep is over once the clock has reached the wake-up time;
   line 245 then enters broadcast_message *)
RpSleep(t) ==
    /\ pc[t] = "rp_sleep"
    /\ now >= frame[t].wake
    /\ Goto(t, "bm_history")
    /\ UNCHANGED <<mgrVars, wsVars, roomVars, chan, rx, is_recording_lock,
                   recorded_lock, now, frame, received, ops, exported>>

(* line 243, while the sleep lasts: the clock moves and the task stays put *)
Sleep(t) ==
    /\ pc[t] = "rp_sleep"
    /\ now < frame[t].wake
    /\ now' = now + 1
    /\ UNCHANGED <<mgrVars, wsVars, roomVars, chan, rx, is_recording_lock,
                   recorded_lock, pc, frame, received, ops, exported>>

---------------------------------------------------------------------------
(* Room::add_client, lines 96-120 *)

(* lines 97-104: the RoomClient, then the subscription *)
AddClient(t, client_id, role) ==
    /\ MayCall(t)
    /\ rx' = Append(rx, Subscribe(chan))
    /\ received' = Append(received, <<>>)
    /\ frame' = [frame EXCEPT ![t] =
                    [op |-> "add_client", msg |-> Join(role, client_id),
                     client |-> [id |-> client_id, role |-> role, connected_at |-> now]]]
    /\ Goto(t, "ac_insert")
    /\ UNCHANGED <<mgrVars, wsVars, roomVars, chan, is_recording_lock, recorded_lock,
                   now, ops, exported>>

(* lines 106-109; lines 112-117 then enter broadcast_message with the Join *)
AcInsert(t) ==
    /\ pc[t] = "ac_insert"
    /\ clients' = MapInsert(clients, frame[t].client.id, frame[t].client)
    /\ Goto(t, "bm_history")
    /\ UNCHANGED <<mgrVars, wsVars, message_history, is_recording, recorded_messages,
                   state, chan, rx, is_recording_lock, recorded_lock, now, frame,
                   received, ops, exported>>

---------------------------------------------------------------------------
(* Room::remove_client, lines 122-125 *)

(* RemoveFromRoster emptying the roster *)
RemoveFromRosterAll(roster, client_id) == <<>>

(* line 124: HashMap::remove, nothing happens when the id is not a key *)
RemoveFromRoster(roster, client_id) ==
    [x \in (DOMAIN roster) \ {client_id} |-> roster[x]]

(* a direct call: the roster's write guard, the removal, the return *)
RoomRemoveClient(t, client_id) ==
    /\ MayCall(t)
    /\ clients' = RemoveFromRoster(clients, client_id)
    /\ ops' = Append(ops, [op |-> "remove_client", client_id |-> client_id])
    /\ UNCHANGED <<mgrVars, wsVars, message_history, is_recording, recorded_messages,
                   state, chan, rx, is_recording_lock, recorded_lock, now, pc, frame,
                   received, exported>>

---------------------------------------------------------------------------
(* Room::handle_event, lines 160-184 *)

(* lines 161-164: the Event message, with timestamp = now *)
HandleEvent(t, event) ==
    /\ MayCall(t)
    /\ frame' = [frame EXCEPT ![t] = [op |-> "handle_event", msg |-> Event(event, now)]]
    /\ Goto(t, "he_state")
    /\ UNCHANGED <<mgrVars, wsVars, roomVars, chan, rx, is_recording_lock,
                   recorded_lock, now, received, ops, exported>>

(* HeState leaving the match out: the Event goes on to the broadcast with the
   state write not applied *)
HeStateNoWrite(t) ==
    /\ pc[t] = "he_state"
    /\ Goto(t, "bm_history")
    /\ UNCHANGED <<mgrVars, wsVars, roomVars, chan, rx, is_recording_lock,
                   recorded_lock, now, frame, received, ops, exported>>

(* lines 167-181: the match; update_state and sync_presenter_state write under
   the state lock, the other arms write nothing *)
HeState(t) ==
    /\ pc[t] = "he_state"
    /\ state' = StateAfterEvent(state, frame[t].msg.event)
    /\ Goto(t, "bm_history")
    /\ UNCHANGED <<mgrVars, wsVars, clients, message_history, is_recording,
                   recorded_messages, chan, rx, is_recording_lock, recorded_lock, now,
                   frame, received, ops, exported>>

---------------------------------------------------------------------------
(* Recording, lines 203-231 *)

(* start_recording, lines 204-205: the flag's write guard, kept to the end *)
StartRecording(t) ==
    /\ MayCall(t)
    /\ is_recording_lock = 0
    /\ is_recording_lock' = t
    /\ is_recording' = TRUE
    /\ frame' = [frame EXCEPT ![t] = [op |-> "start_recording"]]
    /\ Goto(t, "sr_clear")
    /\ UNCHANGED <<mgrVars, wsVars, clients, message_history, recorded_messages, state,
                   chan, rx, recorded_lock, now, received, ops, exported>>

(* start_recording, lines 208-210: clear, then both guards are dropped *)
SrClear(t) ==
    /\ pc[t] = "sr_clear"
    /\ recorded_lock = 0
    /\ recorded_messages' = ClearRecording(recorded_messages)
    /\ is_recording_lock' = 0
    /\ Return(t, [op |-> "start_recording", discarded |-> Len(recorded_messages)])
    /\ UNCHANGED <<mgrVars, wsVars, clients, message_history, is_recording, state, chan,
                   rx, recorded_lock, now, received, exported>>

(* stop_recording, lines 212-215 *)
StopRecording(t) ==
    /\ MayCall(t)
    /\ is_recording_lock = 0
    /\ is_recording' = FALSE
    /\ ops' = Append(ops, [op |-> "stop_recording"])
    /\ UNCHANGED <<mgrVars, wsVars, clients, message_history, recorded_messages, state,
                   chan, rx, is_recording_lock, recorded_lock, now, pc, frame, received,
                   exported>>

(* get_recorded_messages, lines 217-220 *)
GetRecordedMessages == recorded_messages

(* export_recording, lines 222-231: one serialized RecordedMessage per line *)
ExportLines(messages) == [i \in 1..Len(messages) |-> SerializeRecorded(messages[i])]

ExportRecording(t) ==
    /\ MayCall(t)
    /\ recorded_lock = 0
    /\ exported' = ExportLines(GetRecordedMessages)
    /\ ops' = Append(ops, [op |-> "export_recording"])
    /\ UNCHANGED <<mgrVars, wsVars, roomVars, chan, rx, is_recording_lock,
                   recorded_lock, now, pc, frame, received>>

---------------------------------------------------------------------------
(* broadcast::Receiver::recv on the handle add_client returned, when it returns
   a message: the oldest one this receiver has not yet seen *)
Recv(r) ==
    /\ r \in 1..Len(rx)
    /\ RecvOutcome(chan, rx[r]).kind = "Ok"
    /\ received' = [received EXCEPT ![r] =
                        Append(@, [seq |-> RecvOutcome(chan, rx[r]).seq,
                                   msg |-> RecvOutcome(chan, rx[r]).msg])]
    /\ rx' = [rx EXCEPT ![r].next = RecvOutcome(chan, rx[r]).next]
    /\ UNCHANGED <<mgrVars, wsVars, roomVars, chan, is_recording_lock, recorded_lock,
                   now, pc, frame, ops, exported>>

---------------------------------------------------------------------------
(* handle_websocket_connection, lines 350-421, on the Room of this model.  A
   connection is the client id its handler made; the handler's receiver is the
   one its add_client call made, and with ids numbered in the order of the
   subscriptions (FreshClientId) that is rx[c].  conns[c] holds what the
   handler of c took from socket.recv (read) and handed to socket.send (sent),
   and where the handler is: in the select loop (Active), past a break
   (Closing), or returned (Closed).  An inbound frame that the match ignores
   shows in read only. *)

(* the handler of c is inside the handle_event call it awaits (line 376) *)
Busy(c) ==
    \E t \in Tasks :
        pc[t] # "idle" /\ "conn" \in DOMAIN frame[t] /\ frame[t].conn = c

(* the handler of c is at the select *)
Active(c) == c \in DOMAIN conns /\ conns[c].status = "Active" /\ ~Busy(c)

(* lines 350-351: the client id, and add_client as an audience member *)
WsConnect(t, client_id) == AddClient(t, client_id, "audience")

(* StateFrames sending nothing to a new connection *)
StateFramesNever(st, timestamp) == <<>>

(* StateFrames sending the state whatever it is *)
StateFramesAlways(st, timestamp) == <<Text(SerializeMessage(State(st, timestamp)))>>

(* lines 355-363: a State message when the state is not null *)
StateFrames(st, timestamp) ==
    IF IsNull(st) THEN <<>> ELSE <<Text(SerializeMessage(State(st, timestamp)))>>

(* lines 354-364, after add_client has returned: the state is read and sent to
   the socket; the handler enters the loop *)
WsActive(c) ==
    /\ c \notin DOMAIN conns
    /\ \E k \in 1..Len(ops) : ops[k] = [op |-> "add_client", msg |-> Join("audience", c)]
    /\ conns' = MapInsert(conns, c, [status |-> "Active", read |-> <<>>,
                                     sent |-> StateFrames(state, now)])
    /\ UNCHANGED <<mgrVars, roomVars, chan, rx, is_recording_lock, recorded_lock, now,
                   pc, frame, received, ops, exported>>

(* lines 372-377: a text frame that parses as an Event; its event goes to
   handle_event (lines 161-164), the timestamp it came with is dropped *)
WsEvent(t, c, json) ==
    /\ Active(c)
    /\ MayCall(t)
    /\ ParseMessage(json).type = "Event"
    /\ conns' = [conns EXCEPT ![c].read = Append(@, Text(json))]
    /\ frame' = [frame EXCEPT ![t] =
                    [op |-> "handle_event", msg |-> Event(ParseMessage(json).event, now),
                     conn |-> c]]
    /\ Goto(t, "he_state")
    /\ UNCHANGED <<mgrVars, roomVars, chan, rx, is_recording_lock, recorded_lock, now,
                   received, ops, exported>>

(* WsHeartbeat publishing the reply to the room *)
WsHeartbeatBroadcast(c, json) ==
    /\ Active(c)
    /\ ParseMessage(json).type = "Heartbeat"
    /\ conns' = [conns EXCEPT ![c].read = Append(@, Text(json))]
    /\ chan' = Send(chan, Heartbeat)
    /\ UNCHANGED <<mgrVars, roomVars, rx, is_recording_lock, recorded_lock, now, pc,
                   frame, received, ops, exported>>

(* lines 378-384: a text frame that parses as a Heartbeat is answered with one *)
WsHeartbeat(c, json) ==
    /\ Active(c)
    /\ ParseMessage(json).type = "Heartbeat"
    /\ conns' = [conns EXCEPT ![c].read = Append(@, Text(json)),
                              ![c].sent = Append(@, Text(SerializeMessage(Heartbeat)))]
    /\ UNCHANGED <<mgrVars, roomVars, chan, rx, is_recording_lock, recorded_lock, now,
                   pc, frame, received, ops, exported>>

(* WsIgnored ending the connection on a frame it has no use for *)
WsIgnoredBreak(c, ws_msg) ==
    /\ Active(c)
    /\ \/ ws_msg.ws \in {"Binary", "Pong"}
       \/ /\ ws_msg.ws = "Text"
          /\ ParseMessage(ws_msg.json).type \notin {"Event", "Heartbeat"}
    /\ conns' = [conns EXCEPT ![c].read = Append(@, ws_msg), ![c].status = "Closing"]
    /\ UNCHANGED <<mgrVars, roomVars, chan, rx, is_recording_lock, recorded_lock, now,
                   pc, frame, received, ops, exported>>

(* lines 373, 385, 389-391, 395-397: text that does not parse or is another
   variant, binary frames and pongs are dropped *)
WsIgnored(c, ws_msg) ==
    /\ Active(c)
    /\ \/ ws_msg.ws \in {"Binary", "Pong"}
       \/ /\ ws_msg.ws = "Text"
          /\ ParseMessage(ws_msg.json).type \notin {"Event", "Heartbeat"}
    /\ conns' = [conns EXCEPT ![c].read = Append(@, ws_msg)]
    /\ UNCHANGED <<mgrVars, roomVars, chan, rx, is_recording_lock, recorded_lock, now,
                   pc, frame, received, ops, exported>>

(* lines 392-394: a ping is answered with a pong *)
WsPing(c) ==
    /\ Active(c)
    /\ conns' = [conns EXCEPT ![c].read = Append(@, Ping),
                              ![c].sent = Append(@, Pong)]
    /\ UNCHANGED <<mgrVars, roomVars, chan, rx, is_recording_lock, recorded_lock, now,
                   pc, frame, received, ops, exported>>

(* lines 398-400: a close frame, an error or the end of the stream *)
WsBreak(c, ws_msg) ==
    /\ Active(c)
    /\ ws_msg.ws \in {"Close", "Err", "None"}
    /\ conns' = [conns EXCEPT ![c].read = Append(@, ws_msg), ![c].status = "Closing"]
    /\ UNCHANGED <<mgrVars, roomVars, chan, rx, is_recording_lock, recorded_lock, now,
                   pc, frame, received, ops, exported>>

(* lines 405-415: the receiver has something; a message is sent on to the
   socket and the loop goes on unless that send fails (sent_ok), an error ends
   the loop *)
WsRecv(c, sent_ok) ==
    /\ Active(c)
    /\ LET out == RecvOutcome(chan, rx[c])
       IN  /\ out.kind # "Pending"
           /\ rx' = [rx EXCEPT ![c].next = out.next]
           /\ IF out.kind = "Ok"
              THEN /\ received' = [received EXCEPT ![c] =
                                      Append(@, [seq |-> out.seq, msg |-> out.msg])]
                   /\ conns' = [conns EXCEPT
                        ![c].sent = Append(@, Text(SerializeMessage(out.msg))),
                        ![c].status = IF sent_ok THEN "Active" ELSE "Closing"]
              ELSE /\ received' = received
                   /\ conns' = [conns EXCEPT ![c].status = "Closing"]
    /\ UNCHANGED <<mgrVars, roomVars, chan, is_recording_lock, recorded_lock, now, pc,
                   frame, ops, exported>>

(* WsRemoveClient returning with the client still in the roster *)
WsRemoveClientKeepsRoster(c) ==
    /\ c \in DOMAIN conns
    /\ conns[c].status = "Closing"
    /\ conns' = [conns EXCEPT ![c].status = "Closed"]
    /\ UNCHANGED <<mgrVars, roomVars, chan, rx, is_recording_lock, recorded_lock, now,
                   pc, frame, received, ops, exported>>

(* line 421, remove_client lines 122-125; the handler returns *)
WsRemoveClient(c) ==
    /\ c \in DOMAIN conns
    /\ conns[c].status = "Closing"
    /\ clients' = RemoveFromRoster(clients, c)
    /\ conns' = [conns EXCEPT ![c].status = "Closed"]
    /\ UNCHANGED <<mgrVars, message_history, is_recording, recorded_messages, state,
                   chan, rx, is_recording_lock, recorded_lock, now, pc, frame, received,
                   ops, exported>>

---------------------------------------------------------------------------
(* RoomManager, lines 258-326, and the set-up of a connection.  A Room is a
   bundle of Arcs: the registry and every handle cloned from it name the same
   roster, history and flags.  heap holds them, and a Room value is its index
   in heap (0 for None).  In the rooms of the registry recording stays off and
   the subscribers of their channels are not followed. *)

(* Room::new, lines 81-94 *)
RoomNew(room_id) ==
    [id |-> room_id, created_at |-> now, clients |-> <<>>, message_history |-> <<>>,
     is_recording |-> FALSE, recorded_messages |-> <<>>, state |-> Null]

(* HashMap::remove on a map held as a function *)
MapRemove(f, keys) == [x \in (DOMAIN f) \ keys |-> f[x]]

(* cleanup_empty_rooms holds the registry's write guard from line 305 to its
   return; nothing else keeps a guard of the registry across an await *)
RegistryFree == \A t \in Tasks : pc[t] # "cl_scan"

(* get_room, lines 294-297 *)
GetRoom(room_id) == IF room_id \in DOMAIN rooms THEN rooms[room_id] ELSE 0

(* Uuid::new_v4 (line 350): an id no other call of the run gets *)
Uuid(t) == t + NumTasks * Len(ops)

(* ensure_room returns to its caller: websocket_handler (lib.rs 770-775) goes on
   to handle_websocket_connection, a direct call is over *)
EnsureRoomReturn(t, op, room_id) ==
    IF op = "websocket_handler"
    THEN /\ frame' = [frame EXCEPT ![t] = [op |-> op, room_id |-> room_id]]
         /\ Goto(t, "ws_get_room")
         /\ ops' = ops
    ELSE Return(t, [op |-> op, room_id |-> room_id, returned |-> room_id])

(* EnsureRoom without the look-up: a new Room whether or not the id is known *)
EnsureRoomAlways(t, op, room_id) ==
    /\ MayCall(t)
    /\ RegistryFree
    /\ heap' = Append(heap, RoomNew(room_id))
    /\ frame' = [frame EXCEPT ![t] =
                    [op |-> op, room_id |-> room_id, room |-> Len(heap) + 1]]
    /\ Goto(t, "er_insert")
    /\ UNCHANGED <<wsVars, roomVars, chan, rx, is_recording_lock, recorded_lock, now,
                   received, ops, exported, rooms>>

(* ensure_room, lines 281-286: return when get_room finds the id, else make the
   Room; called for itself or as the first thing websocket_handler does *)
EnsureRoom(t, op, room_id) ==
    /\ MayCall(t)
    /\ RegistryFree
    /\ IF GetRoom(room_id) # 0
       THEN /\ heap' = heap
            /\ EnsureRoomReturn(t, op, room_id)
       ELSE /\ heap' = Append(heap, RoomNew(room_id))
            /\ frame' = [frame EXCEPT ![t] =
                            [op |-> op, room_id |-> room_id, room |-> Len(heap) + 1]]
            /\ Goto(t, "er_insert")
            /\ ops' = ops
    /\ UNCHANGED <<wsVars, roomVars, chan, rx, is_recording_lock, recorded_lock, now,
                   received, exported, rooms>>

(* ensure_room, lines 288-291 *)
ErInsert(t) ==
    /\ pc[t] = "er_insert"
    /\ RegistryFree
    /\ rooms' = MapInsert(rooms, frame[t].room_id, frame[t].room)
    /\ EnsureRoomReturn(t, frame[t].op, frame[t].room_id)
    /\ UNCHANGED <<wsVars, roomVars, chan, rx, is_recording_lock, recorded_lock, now,
                   received, exported, heap>>

(* remove_room, lines 299-302 *)
RemoveRoom(t, room_id) ==
    /\ MayCall(t)
    /\ RegistryFree
    /\ rooms' = MapRemove(rooms, {room_id})
    /\ ops' = Append(ops, [op |-> "remove_room", room_id |-> room_id])
    /\ UNCHANGED <<wsVars, roomVars, chan, rx, is_recording_lock, recorded_lock, now,
                   pc, frame, received, exported, heap>>

(* handle_websocket_connection called by itself, with the id of any room *)
HandleWebsocketConnection(t, room_id) ==
    /\ MayCall(t)
    /\ frame' = [frame EXCEPT ![t] =
                    [op |-> "handle_websocket_connection", room_id |-> room_id]]
    /\ Goto(t, "ws_get_room")
    /\ UNCHANGED <<mgrVars, wsVars, roomVars, chan, rx, is_recording_lock,
                   recorded_lock, now, received, ops, exported>>

(* LookupFailureFrames closing the socket without a word *)
LookupFailureFramesNone(timestamp) == <<>>

(* lines 336-345: what a connection to an unknown room is sent *)
LookupFailureFrames(timestamp) ==
    <<Text(SerializeMessage(
            Event(EventData("error", Obj([message |-> Str("Room not found")]), "system"),
                  timestamp)))>>

(* handle_websocket_connection, lines 333-350: the Room of the id, or the end of
   the connection, whose record then has what its socket was sent; then the
   connection's client id *)
WsGetRoom(t) ==
    /\ pc[t] = "ws_get_room"
    /\ RegistryFree
    /\ IF GetRoom(frame[t].room_id) = 0
       THEN Return(t, [op |-> frame[t].op, room_id |-> frame[t].room_id, room |-> 0,
                       client_id |-> 0, sent |-> LookupFailureFrames(now)])
       ELSE /\ frame' = [frame EXCEPT ![t] =
                            [op |-> @.op, room_id |-> @.room_id,
                             room |-> GetRoom(@.room_id), client_id |-> Uuid(t)]]
            /\ Goto(t, "ws_add_client")
            /\ ops' = ops
    /\ UNCHANGED <<mgrVars, wsVars, roomVars, chan, rx, is_recording_lock,
                   recorded_lock, now, received, exported>>

(* line 351, add_client lines 97-109 on the connection's Room *)
WsAddClient(t) ==
    /\ pc[t] = "ws_add_client"
    /\ heap' = [heap EXCEPT ![frame[t].room].clients =
                    MapInsert(@, frame[t].client_id,
                              [id |-> frame[t].client_id, role |-> "audience",
                               connected_at |-> now])]
    /\ Goto(t, "ws_join")
    /\ UNCHANGED <<wsVars, roomVars, chan, rx, is_recording_lock, recorded_lock, now,
                   frame, received, ops, exported, rooms>>

(* add_client lines 112-119: the Join goes through broadcast_message into the
   Room's history, and into its recording when that is on; the connection is
   set up *)
WsJoin(t) ==
    /\ pc[t] = "ws_join"
    /\ heap' = [heap EXCEPT
                    ![frame[t].room].message_history =
                        PushHistory(@, Join("audience", frame[t].client_id)),
                    ![frame[t].room].recorded_messages =
                        IF heap[frame[t].room].is_recording
                        THEN Record(@, Join("audience", frame[t].client_id), now,
                                    now - heap[frame[t].room].created_at)
                        ELSE @]
    /\ Return(t, frame[t])
    /\ UNCHANGED <<wsVars, roomVars, chan, rx, is_recording_lock, recorded_lock, now,
                   received, exported, rooms>>

(* handle_websocket_connection, line 421, remove_client lines 122-125: a
   connection that was set up ends *)
RemoveClient(t, room, client_id) ==
    /\ MayCall(t)
    /\ room \in 1..Len(heap)
    /\ client_id \in DOMAIN heap[room].clients
    /\ \A u \in Tasks : pc[u] = "ws_join" => frame[u].client_id # client_id
    /\ heap' = [heap EXCEPT ![room].clients = MapRemove(@, {client_id})]
    /\ ops' = Append(ops, [op |-> "remove_client", room |-> room,
                           client_id |-> client_id, at |-> now])
    /\ UNCHANGED <<wsVars, roomVars, chan, rx, is_recording_lock, recorded_lock, now,
                   pc, frame, received, exported, rooms>>

(* lib.rs 344-380: the recording requests of the HTTP API.  Each looks the room
   up with get_room (lines 349, 362, 375) and answers NOT_FOUND when there is
   none; else it calls the Room's method and answers OK *)
NotFound == 404
Ok == 200

(* Request calling ensure_room where the handlers call get_room *)
RequestEnsuring(t, op, room_id) ==
    /\ MayCall(t)
    /\ RegistryFree
    /\ IF GetRoom(room_id) = 0
       THEN /\ heap' = Append(heap, RoomNew(room_id))
            /\ rooms' = MapInsert(rooms, room_id, Len(heap) + 1)
            /\ frame' = [frame EXCEPT ![t] =
                            [op |-> op, room_id |-> room_id, room |-> Len(heap) + 1]]
       ELSE /\ frame' = [frame EXCEPT ![t] =
                            [op |-> op, room_id |-> room_id, room |-> GetRoom(room_id)]]
            /\ UNCHANGED mgrVars
    /\ Goto(t, "rq_room")
    /\ UNCHANGED <<wsVars, roomVars, chan, rx, is_recording_lock, recorded_lock, now,
                   received, ops, exported>>

Request(t, op, room_id) ==
    /\ MayCall(t)
    /\ RegistryFree
    /\ IF GetRoom(room_id) = 0
       THEN Return(t, [op |-> op, room_id |-> room_id, status |-> NotFound,
                       body |-> <<>>])
       ELSE /\ frame' = [frame EXCEPT ![t] =
                            [op |-> op, room_id |-> room_id, room |-> GetRoom(room_id)]]
            /\ Goto(t, "rq_room")
            /\ ops' = ops
    /\ UNCHANGED <<mgrVars, wsVars, roomVars, chan, rx, is_recording_lock,
                   recorded_lock, now, received, exported>>

(* lib.rs 345-355, 358-368, 371-380 *)
HttpStartRecording(t, room_id) == Request(t, "start_recording", room_id)
HttpStopRecording(t, room_id) == Request(t, "stop_recording", room_id)
GetRoomDump(t, room_id) == Request(t, "get_room_dump", room_id)

(* lib.rs 350, 363, 376: start_recording (rooms.rs 203-210), stop_recording
   (212-215) or export_recording (222-231) on the Room that was found *)
RqRoom(t) ==
    /\ pc[t] = "rq_room"
    /\ LET room == frame[t].room
           op == frame[t].op
       IN  /\ heap' = CASE op = "start_recording" ->
                              [heap EXCEPT ![room].is_recording = TRUE,
                                           ![room].recorded_messages = ClearRecording(@)]
                         [] op = "stop_recording" ->
                              [heap EXCEPT ![room].is_recording = FALSE]
                         [] op = "get_room_dump" -> heap
           /\ Return(t, [op |-> op, room_id |-> frame[t].room_id, status |-> Ok,
                          body |-> IF op = "get_room_dump"
                                   THEN ExportLines(heap[room].recorded_messages)
                                   ELSE <<>>])
    /\ UNCHANGED <<wsVars, roomVars, chan, rx, is_recording_lock, recorded_lock, now,
                   received, exported, rooms>>

(* chrono's Duration::num_minutes (line 313): whole minutes, the rest dropped *)
NumMinutes(ms) == ms \div MsPerMinute

(* ShouldRemove with the age compared in ms: any time past 30 minutes counts *)
ShouldRemoveToTheMs(room) ==
    /\ DOMAIN room.clients = {}
    /\ now - room.created_at > InactiveMinutes * MsPerMinute

(* ShouldRemove looking at the age only *)
ShouldRemoveAnyRoster(room) ==
    NumMinutes(now - room.created_at) > InactiveMinutes

(* cleanup_empty_rooms, lines 310-318: the test that puts a room on to_remove *)
ShouldRemove(room) ==
    /\ DOMAIN room.clients = {}
    /\ NumMinutes(now - room.created_at) > InactiveMinutes

(* cleanup_empty_rooms, lines 305-306: the registry's write guard, an empty
   to_remove; with no room in the registry the call is over *)
CleanupEmptyRooms(t) ==
    /\ MayCall(t)
    /\ RegistryFree
    /\ IF DOMAIN rooms = {}
       THEN /\ ops' = Append(ops, [op |-> "cleanup_empty_rooms", removed |-> {},
                                   at |-> now])
            /\ UNCHANGED <<pc, frame>>
       ELSE /\ frame' = [frame EXCEPT ![t] =
                            [op |-> "cleanup_empty_rooms", todo |-> DOMAIN rooms,
                             to_remove |-> {}]]
            /\ Goto(t, "cl_scan")
            /\ ops' = ops
    /\ UNCHANGED <<mgrVars, wsVars, roomVars, chan, rx, is_recording_lock,
                   recorded_lock, now, received, exported>>

(* lines 308-320, one turn of the loop: the roster's read guard, the clock, the
   test; the map is walked in no particular order.  After the last turn, lines
   322-324: the rooms of to_remove leave the registry *)
ClScan(t) ==
    /\ pc[t] = "cl_scan"
    /\ \E room_id \in frame[t].todo :
        LET to_remove == frame[t].to_remove \cup
                            (IF ShouldRemove(heap[rooms[room_id]]) THEN {room_id} ELSE {})
            todo == frame[t].todo \ {room_id}
        IN  IF todo = {}
            THEN /\ rooms' = MapRemove(rooms, to_remove)
                 /\ Return(t, [op |-> "cleanup_empty_rooms", removed |-> to_remove,
                               at |-> now])
            ELSE /\ rooms' = rooms
                 /\ frame' = [frame EXCEPT ![t].todo = todo, ![t].to_remove = to_remove]
                 /\ UNCHANGED <<pc, ops>>
    /\ UNCHANGED <<wsVars, roomVars, chan, rx, is_recording_lock, recorded_lock, now,
                   received, exported, heap>>

(* the clock moves on to a later moment *)
Advance(c) ==
    /\ c > now
    /\ now' = c
    /\ UNCHANGED <<mgrVars, wsVars, roomVars, chan, rx, is_recording_lock,
                   recorded_lock, pc, frame, received, ops, exported>>

---------------------------------------------------------------------------
(* Inputs *)

(* handle_websocket_connection, line 350: a connection's client id is a fresh
   uuid; client ids are numbered in the order the connections ask for them *)
FreshClientId == Len(rx) + 1

GoodSync ==
    Obj([current_slide |-> Str("s3"), current_fragment |-> Num(0),
         deck_title |-> Str("deck"), total_slides |-> Num(9),
         currentSlide |-> Str("s3")])
SyncNoTitle ==
    Obj([current_slide |-> Str("s3"), current_fragment |-> Num(0),
         total_slides |-> Num(9)])
SyncBadFragment ==
    Obj([current_slide |-> Str("s3"), current_fragment |-> Num(-1),
         deck_title |-> Str("deck"), total_slides |-> Num(9)])

(* client ids and roles handed to add_client and remove_client *)
ClientIds == {1, 2}
Roles == {"presenter", "audience"}

(* what a client sends: an Event, a Heartbeat, a message the handler has no arm
   for, text that is no RoomMessage; the other kinds of frame; the ways the
   stream ends *)
InboundTexts(c) ==
    {SerializeMessage(Event(EventData("slide:change", Str("s2"), c), 0)),
     SerializeMessage(Heartbeat),
     SerializeMessage(Join("presenter", c)),
     SerializeMessage(State(Obj([currentSlide |-> Str("s9")]), 0)),
     SerializeMessage(Ack("a1")),
     Str("garbage")}

InboundFrames(c) ==
    {Text(json) : json \in InboundTexts(c)}
        \cup {Binary, Ping, Pong, Close, RecvError, EndOfStream}

LiveEvents == {EventData("slide:change", Str("s2"), 1)}

(* the events that change the state *)
UpdateEvents ==
    {EventData("slide:change", Str("s2"), 1),
     EventData("fragment:change", Num(1), 1),
     EventData("presenter:sync", GoodSync, 1)}

StateEvents ==
    {EventData("slide:change", Str("s2"), 1),
     EventData("fragment:change", Num(1), 1),
     EventData("poll:vote", Null, 1),
     EventData("presenter:sync", GoodSync, 1),
     EventData("presenter:sync", SyncNoTitle, 1),
     EventData("presenter:sync", SyncBadFragment, 1),
     EventData("presenter:sync", Str("s3"), 1)}

SeqMessages == {Join("audience", 1), Event(EventData("poll:vote", Null, 2), 0)}

(* the k-th message of the run that fills the history *)
FifoMessage(k) == Event(EventData("poll:vote", Num(k), 1), 0)

(* the Join of a connection made before the run begins *)
OldMessage == Join("audience", 0)

(* a recording of it, taken before the run begins *)
OldRecording == <<RecordedMessage(OldMessage, 0, 0)>>

(* time_compression = 1.0 *)
RealTime == [num |-> 1, den |-> 1]

(* time_compression = 2.0 *)
DoubleTime == [num |-> 2, den |-> 1]

Compressions == {RealTime, DoubleTime}

(* a recording of three events that write the state when they are handled,
   taken 2 ms apart *)
Take ==
    <<RecordedMessage(Event(EventData("slide:change", Str("s1"), 1), 5), 5, 5),
      RecordedMessage(Event(EventData("fragment:change", Num(2), 1), 7), 7, 7),
      RecordedMessage(Event(EventData("presenter:sync", GoodSync, 1), 9), 9, 9)>>

ReplayLists == {<<>>, Take}

(* two-message recordings: one second apart from 0, and 3 ms apart from 5 *)
SecondApart ==
    <<RecordedMessage(Event(EventData("slide:change", Str("s1"), 1), 0), 0, 0),
      RecordedMessage(Event(EventData("slide:change", Str("s2"), 1), 1000), 1000, 1000)>>

ThreeMsApart ==
    <<RecordedMessage(Event(EventData("slide:change", Str("s1"), 1), 5), 5, 5),
      RecordedMessage(Event(EventData("slide:change", Str("s2"), 1), 8), 8, 8)>>

DelayLists == {SecondApart, ThreeMsApart, Take}

(* the room ids of the connections *)
RoomIds == {"r1", "r2"}

(* the moments of a run on the registry: its start, 30 minutes later, 30
   minutes 30 seconds later, 31 minutes later *)
ClockTimes ==
    {0, 30 * MsPerMinute, 30 * MsPerMinute + 30000, 31 * MsPerMinute}


---------------------------------------------------------------------------
(* The room under concurrent callers: connections joining and sending events,
   recording switched on and off, the room's recording replayed into it (read
   with get_recorded_messages, which needs the buffer's lock free), subscribers
   reading *)
Next ==
    \/ /\ Budget(MaxCalls)
       /\ \E t \in Tasks :
            \/ AddClient(t, FreshClientId, "audience")
            \/ \E e \in LiveEvents : HandleEvent(t, e)
            \/ StartRecording(t)
            \/ StopRecording(t)
            \/ recorded_lock = 0 /\ ReplayRecording(t, GetRecordedMessages, RealTime)
    \/ \E t \in Tasks :
        \/ AcInsert(t)
        \/ HeState(t)
        \/ BmHistory(t)
        \/ BmFlag(t)
        \/ BmRecord(t)
        \/ BmPush(t)
        \/ BmSend(t)
        \/ SrClear(t)
        \/ RpSleep(t)
    \/ \E r \in 1..Len(rx) : Recv(r)

Spec == Init /\ [][Next]_vars

(* Callers on a room whose history is one short of its capacity: HistoryCap - 1
   connections have joined and left before the run; the roster is empty again,
   their receivers are dropped, and chan and ops log the run only *)
InitBusy ==
    /\ clients = <<>>
    /\ message_history = [i \in 1..(HistoryCap - 1) |-> OldMessage]
    /\ is_recording = FALSE
    /\ recorded_messages = <<>>
    /\ state = Null
    /\ chan = <<>>
    /\ rx = <<>>
    /\ is_recording_lock = 0
    /\ recorded_lock = 0
    /\ now = created_at
    /\ pc = [t \in Tasks |-> "idle"]
    /\ frame = [t \in Tasks |-> Idle]
    /\ received = <<>>
    /\ ops = <<>>
    /\ exported = <<>>
    /\ rooms = <<>>
    /\ heap = <<>>
    /\ conns = <<>>

NextBusy ==
    \/ /\ Budget(MaxCalls)
       /\ \E t \in Tasks :
            \/ AddClient(t, FreshClientId, "audience")
            \/ \E e \in LiveEvents : HandleEvent(t, e)
            \/ ReplayRecording(t, OldRecording, RealTime)
    \/ \E t \in Tasks :
        \/ AcInsert(t)
        \/ HeState(t)
        \/ BmHistory(t)
        \/ BmFlag(t)
        \/ BmSend(t)
        \/ RpSleep(t)

SpecBusy == InitBusy /\ [][NextBusy]_vars

(* One caller making its calls one after another, while the clock runs *)
NextSeq ==
    \/ Tick
    \/ /\ Budget(MaxSeqCalls)
       /\ \/ \E m \in SeqMessages : BroadcastMessage(1, m)
          \/ StartRecording(1)
          \/ StopRecording(1)
          \/ ExportRecording(1)
    \/ BmHistory(1)
    \/ BmFlag(1)
    \/ BmRecord(1)
    \/ BmPush(1)
    \/ BmSend(1)
    \/ SrClear(1)

SpecSeq == Init /\ [][NextSeq]_vars

(* One caller broadcasting MaxFifoCalls different messages into a fresh room *)
NextFifo ==
    \/ /\ Budget(MaxFifoCalls)
       /\ BroadcastMessage(1, FifoMessage(Len(ops) + 1))
    \/ BmHistory(1)
    \/ BmFlag(1)
    \/ BmSend(1)

SpecFifo == Init /\ [][NextFifo]_vars

(* Concurrent handle_event calls over every kind of event *)
NextState ==
    \/ /\ Budget(MaxStateCalls)
       /\ \E t \in Tasks : \E e \in StateEvents : HandleEvent(t, e)
    \/ \E t \in Tasks :
        \/ HeState(t)
        \/ BmHistory(t)
        \/ BmFlag(t)
        \/ BmSend(t)

SpecState == Init /\ [][NextState]_vars

(* One caller joining clients and handling events of every kind one after
   another, while the subscribers read *)
NextOrder ==
    \/ /\ Budget(MaxCalls)
       /\ \/ AddClient(1, FreshClientId, "audience")
          \/ \E e \in StateEvents : HandleEvent(1, e)
    \/ AcInsert(1)
    \/ HeState(1)
    \/ BmHistory(1)
    \/ BmFlag(1)
    \/ BmSend(1)
    \/ \E r \in 1..Len(rx) : Recv(r)

SpecOrder == Init /\ [][NextOrder]_vars

(* The same run on a scheduler that lets every ready task go on: the caller is
   not suspended for ever, and every subscriber keeps polling its handle *)
Receivers == 1..MaxCalls

FairOrder ==
    /\ WF_vars(AcInsert(1))
    /\ WF_vars(HeState(1))
    /\ WF_vars(BmHistory(1))
    /\ WF_vars(BmFlag(1))
    /\ WF_vars(BmSend(1))
    /\ \A r \in Receivers : WF_vars(Recv(r))

SpecOrderLive == SpecOrder /\ FairOrder

(* Concurrent callers of add_client and remove_client that take their client
   ids and roles from small sets, so that an id comes up again while it is in
   the roster and is removed while it is not *)
NextRoster ==
    \/ /\ Budget(MaxRosterCalls)
       /\ \E t \in Tasks : \E client_id \in ClientIds :
            \/ \E role \in Roles : AddClient(t, client_id, role)
            \/ RoomRemoveClient(t, client_id)
    \/ \E t \in Tasks :
        \/ AcInsert(t)
        \/ BmHistory(t)
        \/ BmFlag(t)
        \/ BmSend(t)

SpecRoster == Init /\ [][NextRoster]_vars

(* Connections to the room: each is set up, enters the select loop and passes
   on what its receiver has, while the clients send events.  The calls of
   add_client and handle_event that the handlers make come one at a time *)
NextWs ==
    \/ /\ Budget(MaxWsCalls)
       /\ \/ WsConnect(1, FreshClientId)
          \/ \E c \in DOMAIN conns : \E json \in InboundTexts(c) : WsEvent(1, c, json)
    \/ \E c \in 1..Len(rx) : WsActive(c)
    \/ \E c \in DOMAIN conns : WsRecv(c, TRUE)
    \/ AcInsert(1)
    \/ HeState(1)
    \/ BmHistory(1)
    \/ BmFlag(1)
    \/ BmSend(1)

SpecWs == Init /\ [][NextWs]_vars

(* Connections that are set up while concurrent callers of handle_event change
   the state; each connection reads its receiver *)
NextJoin ==
    \/ /\ Budget(MaxJoinCalls)
       /\ \E t \in Tasks :
            \/ WsConnect(t, FreshClientId)
            \/ \E e \in UpdateEvents : HandleEvent(t, e)
    \/ \E t \in Tasks :
        \/ AcInsert(t)
        \/ HeState(t)
        \/ BmHistory(t)
        \/ BmFlag(t)
        \/ BmSend(t)
    \/ \E c \in 1..Len(rx) : WsActive(c)
    \/ \E c \in DOMAIN conns : WsRecv(c, TRUE)

SpecJoin == Init /\ [][NextJoin]_vars

(* Two connections in the select loop, their Joins passed on, and the frames
   their clients send *)
InitFrames ==
    /\ clients = [c \in {1, 2} |-> [id |-> c, role |-> "audience", connected_at |-> 0]]
    /\ message_history = <<Join("audience", 1), Join("audience", 2)>>
    /\ is_recording = FALSE
    /\ recorded_messages = <<>>
    /\ state = Null
    /\ chan = <<Join("audience", 1), Join("audience", 2)>>
    /\ rx = <<[next |-> 3], [next |-> 3]>>
    /\ is_recording_lock = 0
    /\ recorded_lock = 0
    /\ now = created_at
    /\ pc = [t \in Tasks |-> "idle"]
    /\ frame = [t \in Tasks |-> Idle]
    /\ received = <<<<[seq |-> 1, msg |-> Join("audience", 1)],
                      [seq |-> 2, msg |-> Join("audience", 2)]>>,
                    <<[seq |-> 2, msg |-> Join("audience", 2)]>>>>
    /\ ops = <<[op |-> "add_client", msg |-> Join("audience", 1)],
               [op |-> "add_client", msg |-> Join("audience", 2)]>>
    /\ exported = <<>>
    /\ rooms = <<>>
    /\ heap = <<>>
    /\ conns = [c \in {1, 2} |->
                    [status |-> "Active", read |-> <<>>,
                     sent |-> [i \in 1..Len(received[c]) |->
                                  Text(SerializeMessage(received[c][i].msg))]]]

FramesRead ==
    Cardinality({x \in (DOMAIN conns) \X (1..MaxFrames) : x[2] <= Len(conns[x[1]].read)})

NextFrames ==
    \/ /\ FramesRead < MaxFrames
       /\ \E c \in DOMAIN conns :
            \/ \E json \in InboundTexts(c) : WsEvent(1, c, json)
            \/ \E json \in InboundTexts(c) : WsHeartbeat(c, json)
            \/ \E ws_msg \in InboundFrames(c) : WsIgnored(c, ws_msg)
            \/ WsPing(c)
            \/ \E ws_msg \in InboundFrames(c) : WsBreak(c, ws_msg)
    \/ \E c \in DOMAIN conns :
        \/ \E sent_ok \in BOOLEAN : WsRecv(c, sent_ok)
        \/ WsRemoveClient(c)
    \/ HeState(1)
    \/ BmHistory(1)
    \/ BmFlag(1)
    \/ BmSend(1)

SpecFrames == InitFrames /\ [][NextFrames]_vars

(* Connections that are handed a room id by concurrent callers, whether or not
   ensure_room has registered it *)
NextLookup ==
    \/ /\ Budget(MaxLookupCalls)
       /\ \E t \in Tasks : \E room_id \in RoomIds :
            \/ EnsureRoom(t, "ensure_room", room_id)
            \/ HandleWebsocketConnection(t, room_id)
    \/ \E t \in Tasks :
        \/ ErInsert(t)
        \/ WsGetRoom(t)
        \/ WsAddClient(t)
        \/ WsJoin(t)

SpecLookup == Init /\ [][NextLookup]_vars

(* Connections to a room that ensure_room made 31 minutes ago and that nobody
   has joined since, set up and ended by concurrent callers while
   cleanup_empty_rooms runs *)
InitOld ==
    /\ clients = <<>>
    /\ message_history = <<>>
    /\ is_recording = FALSE
    /\ recorded_messages = <<>>
    /\ state = Null
    /\ chan = <<>>
    /\ rx = <<>>
    /\ is_recording_lock = 0
    /\ recorded_lock = 0
    /\ now = (InactiveMinutes + 1) * MsPerMinute
    /\ pc = [t \in Tasks |-> "idle"]
    /\ frame = [t \in Tasks |-> Idle]
    /\ received = <<>>
    /\ ops = <<>>
    /\ exported = <<>>
    /\ rooms = [room_id \in {"r1"} |-> 1]
    /\ heap = <<[id |-> "r1", created_at |-> 0, clients |-> <<>>,
                 message_history |-> <<>>, is_recording |-> FALSE,
                 recorded_messages |-> <<>>, state |-> Null]>>
    /\ conns = <<>>

NextReap ==
    \/ /\ Budget(MaxReapCalls)
       /\ \E t \in Tasks :
            \/ EnsureRoom(t, "websocket_handler", "r1")
            \/ CleanupEmptyRooms(t)
            \/ \E room \in 1..Len(heap) : \E client_id \in DOMAIN heap[room].clients :
                    RemoveClient(t, room, client_id)
    \/ \E t \in Tasks :
        \/ ErInsert(t)
        \/ WsGetRoom(t)
        \/ WsAddClient(t)
        \/ WsJoin(t)
        \/ ClScan(t)

SpecReap == InitOld /\ [][NextReap]_vars

(* Every method that takes a lock, called concurrently: the room's methods on
   one room, the registry's on the registry *)
LockStep(t) ==
    \/ AcInsert(t)
    \/ HeState(t)
    \/ BmHistory(t)
    \/ BmFlag(t)
    \/ BmRecord(t)
    \/ BmPush(t)
    \/ BmSend(t)
    \/ SrClear(t)
    \/ RpSleep(t)
    \/ ErInsert(t)
    \/ ClScan(t)

NextLocks ==
    \/ /\ Budget(MaxLockCalls)
       /\ \E t \in Tasks :
            \/ AddClient(t, FreshClientId, "audience")
            \/ \E client_id \in DOMAIN clients : RoomRemoveClient(t, client_id)
            \/ HandleEvent(t, EventData("slide:change", Str("s2"), 1))
            \/ StartRecording(t)
            \/ StopRecording(t)
            \/ ExportRecording(t)
            \/ recorded_lock = 0 /\ ReplayRecording(t, GetRecordedMessages, RealTime)
            \/ EnsureRoom(t, "ensure_room", "r1")
            \/ RemoveRoom(t, "r1")
            \/ CleanupEmptyRooms(t)
    \/ \E t \in Tasks : LockStep(t)

SpecLocks == Init /\ [][NextLocks]_vars

(* The room's own recording replayed into the room while recording is on.
   Before the run: client 1 joins, start_recording, then two slide changes
   recorded at 0 and at 2 ms, all read by client 1.  The run:
   get_recorded_messages and replay_recording of what it returned by one
   caller; live events and start_recording by another while the replay runs;
   the clock moves while a replay sleeps; chan and ops log the run only *)
OwnTake ==
    <<RecordedMessage(Event(EventData("slide:change", Str("s1"), 1), 0), 0, 0),
      RecordedMessage(Event(EventData("slide:change", Str("s2"), 1), 2), 2, 2)>>

InitOwn ==
    /\ clients = [c \in {1} |-> [id |-> c, role |-> "audience", connected_at |-> 0]]
    /\ message_history =
          <<Join("audience", 1)>> \o [i \in 1..Len(OwnTake) |-> OwnTake[i].message]
    /\ is_recording = TRUE
    /\ recorded_messages = OwnTake
    /\ state = Obj([currentSlide |-> Str("s2")])
    /\ chan = <<>>
    /\ rx = <<[next |-> 1]>>
    /\ is_recording_lock = 0
    /\ recorded_lock = 0
    /\ now = 2
    /\ pc = [t \in Tasks |-> "idle"]
    /\ frame = [t \in Tasks |-> Idle]
    /\ received = <<<<>>>>
    /\ ops = <<>>
    /\ exported = <<>>
    /\ rooms = <<>>
    /\ heap = <<>>
    /\ conns = <<>>

OwnStep(t) ==
    \/ HeState(t)
    \/ BmHistory(t)
    \/ BmFlag(t)
    \/ BmRecord(t)
    \/ BmPush(t)
    \/ BmSend(t)
    \/ SrClear(t)
    \/ RpSleep(t)
    \/ Sleep(t)

NextOwn ==
    \/ /\ Budget(MaxOwnCalls)
       /\ \/ recorded_lock = 0 /\ ReplayRecording(1, GetRecordedMessages, RealTime)
          \/ HandleEvent(2, EventData("slide:change", Str("s3"), 1))
          \/ StartRecording(2)
    \/ \E t \in Tasks : OwnStep(t)

SpecOwn == InitOwn /\ [][NextOwn]_vars

(* The same run on a scheduler that polls every ready task *)
FairOwn == \A t \in Tasks : WF_vars(OwnStep(t))

SpecOwnLive == SpecOwn /\ FairOwn

(* The same replay with live events, a second client joining or recording
   started again while it runs, and client 1 reading on *)
LiveStep(t) ==
    \/ OwnStep(t)
    \/ AcInsert(t)

NextLive ==
    \/ /\ Budget(MaxOwnCalls)
       /\ \/ recorded_lock = 0 /\ ReplayRecording(1, GetRecordedMessages, RealTime)
          \/ HandleEvent(2, EventData("slide:change", Str("s3"), 1))
          \/ AddClient(2, FreshClientId, "audience")
          \/ StartRecording(2)
    \/ \E t \in Tasks : LiveStep(t)
    \/ Recv(1)

SpecLive == InitOwn /\ [][NextLive]_vars

(* Recordings of two and three messages replayed by one caller, recording
   switched on to time the broadcasts; the clock moves while the replay sleeps *)
NextDelay ==
    \/ /\ Budget(MaxDelayCalls)
       /\ \/ StartRecording(1)
          \/ \E l \in DelayLists : \E c \in Compressions : ReplayRecording(1, l, c)
    \/ BmHistory(1)
    \/ BmFlag(1)
    \/ BmRecord(1)
    \/ BmPush(1)
    \/ BmSend(1)
    \/ SrClear(1)
    \/ RpSleep(1)
    \/ Sleep(1)

SpecDelay == Init /\ [][NextDelay]_vars

(* The recording requests of one caller, for a room that connections are
   made to and for a room nobody has connected to *)
NextRequest ==
    \/ /\ Budget(MaxRequestCalls)
       /\ \/ EnsureRoom(1, "websocket_handler", "r1")
          \/ \E room_id \in RoomIds :
                \/ HttpStartRecording(1, room_id)
                \/ HttpStopRecording(1, room_id)
                \/ GetRoomDump(1, room_id)
    \/ ErInsert(1)
    \/ WsGetRoom(1)
    \/ WsAddClient(1)
    \/ WsJoin(1)
    \/ RqRoom(1)

SpecRequest == Init /\ [][NextRequest]_vars

(* A slow connection: client 1 is in the select loop and has been passed its
   Join, and its receiver is one message short of a full buffer of unread
   messages, the Joins of connections that came and went since (their roster
   entries are gone, ops logs the run only).  Events go on being published
   while the connection takes a few messages, or none, from its receiver *)
InitLag ==
    /\ clients = [c \in {1} |-> [id |-> c, role |-> "audience", connected_at |-> 0]]
    /\ message_history = [i \in 1..HistoryCap |-> OldMessage]
    /\ is_recording = FALSE
    /\ recorded_messages = <<>>
    /\ state = Null
    /\ chan = <<Join("audience", 1)>> \o [i \in 1..(BufferLen - 1) |-> OldMessage]
    /\ rx = <<[next |-> 2]>>
    /\ is_recording_lock = 0
    /\ recorded_lock = 0
    /\ now = created_at
    /\ pc = [t \in Tasks |-> "idle"]
    /\ frame = [t \in Tasks |-> Idle]
    /\ received = <<<<[seq |-> 1, msg |-> Join("audience", 1)]>>>>
    /\ ops = <<>>
    /\ exported = <<>>
    /\ rooms = <<>>
    /\ heap = <<>>
    /\ conns = [c \in {1} |->
                    [status |-> "Active", read |-> <<>>,
                     sent |-> <<Text(SerializeMessage(Join("audience", 1)))>>]]

NextLag ==
    \/ /\ Budget(MaxLagCalls)
       /\ \E e \in LiveEvents : HandleEvent(1, e)
    \/ HeState(1)
    \/ BmHistory(1)
    \/ BmFlag(1)
    \/ BmSend(1)
    \/ \E c \in DOMAIN conns :
        \/ /\ Lagged(chan, rx[c]) \/ Len(received[c]) <= MaxLagRecvs
           /\ \E sent_ok \in BOOLEAN : WsRecv(c, sent_ok)
        \/ \E ws_msg \in InboundFrames(c) : WsBreak(c, ws_msg)
        \/ WsRemoveClient(c)

SpecLag == InitLag /\ [][NextLag]_vars

(* the handler that has left its loop is scheduled again, and the roster's
   lock is granted to it *)
FairLag == \A c \in {1} : WF_vars(WsRemoveClient(c))

SpecLagLive == SpecLag /\ FairLag

(* Connections to one room id set up by concurrent callers, next to direct
   calls of ensure_room; connections end *)
NextConnect ==
    \/ /\ Budget(MaxConnectCalls)
       /\ \E t \in Tasks :
            \/ EnsureRoom(t, "ensure_room", "r1")
            \/ EnsureRoom(t, "websocket_handler", "r1")
            \/ \E room \in 1..Len(heap) : \E c \in DOMAIN heap[room].clients :
                    RemoveClient(t, room, c)
    \/ \E t \in Tasks :
        \/ ErInsert(t)
        \/ WsGetRoom(t)
        \/ WsAddClient(t)
        \/ WsJoin(t)

SpecConnect == Init /\ [][NextConnect]_vars

(* The registry with one caller at a time: connections set up and ended, rooms
   ensured, the reaper run, while the clock moves *)
NextRooms ==
    \/ \E c \in ClockTimes : Advance(c)
    \/ /\ Budget(MaxRoomCalls)
       /\ \/ \E id \in RoomIds : EnsureRoom(1, "ensure_room", id)
          \/ \E id \in RoomIds : EnsureRoom(1, "websocket_handler", id)
          \/ \E room \in 1..Len(heap) : \E c \in DOMAIN heap[room].clients :
                  RemoveClient(1, room, c)
          \/ CleanupEmptyRooms(1)
    \/ ErInsert(1)
    \/ WsGetRoom(1)
    \/ WsAddClient(1)
    \/ WsJoin(1)
    \/ ClScan(1)

SpecRooms == Init /\ [][NextRooms]_vars

(* One caller handling live events, switching recording on and replaying
   recordings at either speed.  Every step but the sleep takes no time: the
   clock moves only while the replay sleeps, and the replay goes on the moment
   its sleep is over *)
NextReplay ==
    \/ /\ Budget(MaxReplayCalls)
       /\ \/ \E e \in LiveEvents : HandleEvent(1, e)
          \/ StartRecording(1)
          \/ \E l \in ReplayLists : \E c \in Compressions : ReplayRecording(1, l, c)
    \/ HeState(1)
    \/ BmHistory(1)
    \/ BmFlag(1)
    \/ BmRecord(1)
    \/ BmPush(1)
    \/ BmSend(1)
    \/ SrClear(1)
    \/ RpSleep(1)
    \/ Sleep(1)

SpecReplay == Init /\ [][NextReplay]_vars

---------------------------------------------------------------------------
(* Properties *)

Range(s) == {s[i] : i \in 1..Len(s)}
AllIdle == \A t \in Tasks : pc[t] = "idle"

RECURSIVE IsSubseq(_, _)
IsSubseq(s, t) ==
    IF s = <<>> THEN TRUE
    ELSE IF t = <<>> THEN FALSE
    ELSE IF Head(s) = Head(t) THEN IsSubseq(Tail(s), Tail(t))
    ELSE IsSubseq(s, Tail(t))

(* C1: what a receiver has got is, entry by entry, what was sent at that place
   of the channel, in increasing order of the sends; so two receivers that both
   got the same two sends got them in the same relative order, the order of the
   sends. *)
OrderedDelivery ==
    /\ \A r \in 1..Len(received) :
        /\ \A i \in 1..Len(received[r]) :
              received[r][i].msg = chan[received[r][i].seq]
        /\ \A i, j \in 1..Len(received[r]) :
              i < j => received[r][i].seq < received[r][j].seq
    /\ \A r1 \in 1..Len(received) : \A r2 \in (r1 + 1)..Len(received) :
         \A i1 \in 1..Len(received[r1]) : \A i2 \in 1..Len(received[r2]) :
            received[r1][i1].seq = received[r2][i2].seq =>
                \A j1 \in (i1 + 1)..Len(received[r1]) : \A j2 \in 1..Len(received[r2]) :
                    received[r1][j1].seq = received[r2][j2].seq => i2 < j2

(* two receivers have both got the same two different messages *)
TwoReceiversShareTwo ==
    \E r1, r2 \in 1..Len(received) :
        /\ r1 # r2
        /\ \E i1, j1 \in 1..Len(received[r1]) : \E i2, j2 \in 1..Len(received[r2]) :
            /\ i1 < j1
            /\ received[r1][i1].seq = received[r2][i2].seq
            /\ received[r1][j1].seq = received[r2][j2].seq
            /\ received[r1][i1].msg # received[r1][j1].msg

(* C2: whenever the history lock is free (every state of the model), under any
   interleaving of the calls, message_history holds at most 1000 messages. *)
HistoryBounded == Len(message_history) <= HistoryCap

(* the history is full and two messages of the run are in it: one was evicted *)
HistoryFullAfterEviction ==
    /\ Len(message_history) = HistoryCap
    /\ message_history[HistoryCap - 1] # OldMessage

(* C3: after k broadcast_message calls made one after another on a fresh room,
   message_history is the last min(k, 1000) messages, in the order of the calls. *)
HistoryIsLastMessages ==
    pc[1] = "idle" =>
        LET k == Len(ops)
            n == IF k < HistoryCap THEN k ELSE HistoryCap
        IN  message_history = [i \in 1..n |-> ops[k - n + i].msg]

(* more broadcasts than the capacity have completed *)
HistoryOverflowed == pc[1] = "idle" /\ Len(ops) = HistoryCap + 2

(* C4: after start_recording, n broadcast_message calls one after another,
   stop_recording and export_recording, the export has n lines, line i is the
   serialized RecordedMessage of the i-th message, and session_time does not
   decrease down the lines. *)
IsTake(s) ==
    /\ pc[1] = "idle"
    /\ Len(ops) >= s + 2
    /\ ops[s].op = "start_recording"
    /\ ops[Len(ops) - 1].op = "stop_recording"
    /\ ops[Len(ops)].op = "export_recording"
    /\ \A i \in (s + 1)..(Len(ops) - 2) : ops[i].op = "broadcast_message"

ExportIsTheTake ==
    \A s \in 1..Len(ops) :
        IsTake(s) =>
            LET n == Len(ops) - s - 2
            IN  /\ Len(exported) = n
                /\ \A i \in 1..n :
                    /\ exported[i] = SerializeRecorded(recorded_messages[i])
                    /\ exported[i].o["message"] = SerializeMessage(ops[s + i].msg)
                /\ \A i \in 1..(n - 1) :
                    exported[i].o["session_time"].n <= exported[i + 1].o["session_time"].n

(* a take of two different messages recorded at different times was exported *)
TakeOfTwoExported ==
    \E s \in 1..Len(ops) :
        /\ IsTake(s)
        /\ Len(ops) = s + 4
        /\ Len(exported) = 2
        /\ exported[1].o["message"] # exported[2].o["message"]
        /\ exported[1].o["session_time"].n < exported[2].o["session_time"].n

(* C5: when start_recording returns, recorded_messages is empty and
   is_recording is true, whatever was recorded before. *)
StartRecordingResets ==
    [][\A t \in Tasks :
          (pc[t] = "sr_clear" /\ pc'[t] = "idle") =>
              (recorded_messages' = <<>> /\ is_recording')]_vars

(* a second start_recording, with no stop since the first, discarded a take *)
SecondStartDiscarded ==
    /\ Len(ops) >= 2
    /\ ops[Len(ops)].op = "start_recording"
    /\ ops[Len(ops)].discarded > 0
    /\ \E i \in 1..(Len(ops) - 1) : ops[i].op = "start_recording"
    /\ \A i \in 1..Len(ops) : ops[i].op # "stop_recording"
    /\ recorded_messages = <<>>
    /\ is_recording

(* C6: recorded_messages grows only in a step taken while is_recording is
   true. *)
RecordsOnlyWhileRecording ==
    [][Len(recorded_messages') > Len(recorded_messages) => is_recording]_vars

(* C7: while recording is active and no broadcast is in flight, the messages
   of recorded_messages appear in the channel in the same order. *)
RecordedInSendOrder ==
    (AllIdle /\ is_recording) =>
        IsSubseq([i \in 1..Len(recorded_messages) |-> recorded_messages[i].message],
                 chan)

(* C8: the state step of a slide:change (fragment:change) on an object sets
   currentSlide (currentFragment) to event.data and keeps every other key with
   its value. *)
StateStep(t) == pc[t] = "he_state" /\ pc'[t] = "bm_history"

UpdateMerges ==
    [][\A t \in Tasks :
          (/\ StateStep(t)
           /\ frame[t].msg.event.name \in {"slide:change", "fragment:change"}
           /\ IsObject(state)) =>
              LET event == frame[t].msg.event
                  key == IF event.name = "slide:change" THEN "currentSlide"
                                                        ELSE "currentFragment"
              IN  /\ IsObject(state')
                  /\ Keys(state') = Keys(state) \cup {key}
                  /\ state'.o[key] = event.data
                  /\ \A x \in Keys(state) \ {key} : state'.o[x] = state.o[x]]_vars

(* a slide:change was merged into a state that held currentFragment *)
SlideMergedWithFragment ==
    /\ IsObject(state)
    /\ Keys(state) = {"currentSlide", "currentFragment"}
    /\ state.o["currentSlide"] = Str("s2")
    /\ state.o["currentFragment"] = Num(1)
    /\ Len(ops) = 2
    /\ ops[1].msg.event.name = "fragment:change"
    /\ ops[2].msg.event.name = "slide:change"

(* C9, as claimed: the state step of a well-formed presenter:sync makes the
   state the serialized PresenterState, and no key of the state before is a key
   of the state after. *)
GoodSyncStep(t) ==
    /\ StateStep(t)
    /\ frame[t].msg.event.name = "presenter:sync"
    /\ ParsesAsPresenterState(frame[t].msg.event.data)

SyncDropsEveryKey ==
    [][\A t \in Tasks :
          GoodSyncStep(t) =>
              /\ state' = ToValue(FromValue(frame[t].msg.event.data))
              /\ IsObject(state) => \A x \in Keys(state) : x \notin Keys(state')]_vars

(* C9, amended: the state after is exactly the serialized PresenterState, its
   four fields with the payload's values; of the keys of the state before only
   those four names can be keys after. *)
SyncReplacesState ==
    [][\A t \in Tasks :
          GoodSyncStep(t) =>
              LET data == frame[t].msg.event.data
              IN  /\ state' = ToValue(FromValue(data))
                  /\ Keys(state') = PresenterFields
                  /\ state'.o["current_slide"] = data.o["current_slide"]
                  /\ state'.o["current_fragment"] = data.o["current_fragment"]
                  /\ state'.o["deck_title"] = data.o["deck_title"]
                  /\ state'.o["total_slides"] = data.o["total_slides"]
                  /\ IsObject(state) =>
                        \A x \in Keys(state) \ PresenterFields : x \notin Keys(state')]_vars

(* a presenter:sync replaced a state that held currentFragment *)
SyncAfterFragment ==
    /\ state = ToValue(FromValue(GoodSync))
    /\ Len(ops) = 2
    /\ ops[1].msg.event.name = "fragment:change"
    /\ ops[2].msg.event = EventData("presenter:sync", GoodSync, 1)

(* C10: no step of a handle_event call whose presenter:sync payload does not
   parse changes the state; the call goes on to append its Event to the history
   and to send it, and returns. *)
IsBadSync(f) ==
    /\ f.op = "handle_event"
    /\ f.msg.event.name = "presenter:sync"
    /\ ~ParsesAsPresenterState(f.msg.event.data)

BadSyncOnlyBroadcasts ==
    [][\A t \in Tasks :
          (pc'[t] # pc[t] /\ IsBadSync(IF pc[t] = "idle" THEN frame'[t] ELSE frame[t])) =>
              LET msg == IF pc[t] = "idle" THEN frame'[t].msg ELSE frame[t].msg
              IN  /\ state' = state
                  /\ pc[t] = "idle" => pc'[t] = "he_state"
                  /\ pc[t] = "he_state" => pc'[t] = "bm_history"
                  /\ pc[t] = "bm_history" =>
                        /\ message_history' = Append(message_history, msg)
                        /\ pc'[t] = "bm_flag"
                  /\ pc[t] = "bm_flag" =>
                        /\ msg \in Range(message_history)
                        /\ pc'[t] = "bm_send"
                  /\ pc[t] = "bm_send" =>
                        /\ msg \in Range(message_history)
                        /\ chan' = Append(chan, msg)
                        /\ pc'[t] = "idle"
                        /\ ops' = Append(ops, [op |-> "handle_event", msg |-> msg])]_vars

(* a presenter:sync that does not parse returned: the state set before it is
   still there, and its Event is in the history and in the channel *)
BadSyncBroadcast ==
    /\ Len(ops) = 2
    /\ ops[1].msg.event.name = "slide:change"
    /\ IsBadSync(ops[2])
    /\ state = Obj([currentSlide |-> Str("s2")])
    /\ message_history = <<ops[1].msg, ops[2].msg>>
    /\ chan = <<ops[1].msg, ops[2].msg>>

(* C11, as claimed: the state step of a slide:change or fragment:change on a
   state that is not an object, or that is the serialized PresenterState a sync
   has just stored, leaves a fresh object holding only that one key. *)
UpdateKey(event) ==
    IF event.name = "slide:change" THEN "currentSlide" ELSE "currentFragment"

IsUpdateStep(t) ==
    /\ StateStep(t)
    /\ frame[t].msg.event.name \in {"slide:change", "fragment:change"}

UpdateAfterSyncIsFresh ==
    [][\A t \in Tasks :
          (IsUpdateStep(t) /\ (~IsObject(state) \/ Keys(state) = PresenterFields)) =>
              LET event == frame[t].msg.event
              IN  /\ IsObject(state')
                  /\ Keys(state') = {UpdateKey(event)}
                  /\ state'.o[UpdateKey(event)] = event.data]_vars

(* C11, amended: on a state that is not an object (null) the step leaves a
   fresh object holding only that one key; on any object, the serialized
   PresenterState of a sync included, it sets the key and keeps every other
   key with its value. *)
UpdateFreshOnlyOnNonObject ==
    [][\A t \in Tasks :
          IsUpdateStep(t) =>
              LET event == frame[t].msg.event
                  key == UpdateKey(event)
              IN  /\ IsObject(state')
                  /\ state'.o[key] = event.data
                  /\ ~IsObject(state) => Keys(state') = {key}
                  /\ IsObject(state) =>
                        /\ Keys(state') = Keys(state) \cup {key}
                        /\ \A x \in Keys(state) \ {key} : state'.o[x] = state.o[x]
                  /\ (IsObject(state) /\ Keys(state) = PresenterFields) =>
                        /\ Keys(state') = PresenterFields \cup {key}
                        /\ \A x \in PresenterFields : state'.o[x] = state.o[x]]_vars

(* a slide:change right after a presenter:sync: the four fields are still there *)
SlideMergedAfterSync ==
    /\ Len(ops) = 2
    /\ ops[1].msg.event = EventData("presenter:sync", GoodSync, 1)
    /\ ops[2].msg.event.name = "slide:change"
    /\ Keys(state) = PresenterFields \cup {"currentSlide"}
    /\ state.o["currentSlide"] = Str("s2")
    /\ state.o["deck_title"] = Str("deck")

(* C12: with one caller, the state is at every moment the result of the writes
   of every Event in the history, in order, and of the write of the call that
   is about to append its Event; what was published, and what a subscriber
   has received, is in the history.  So no Event is in the history or with a
   subscriber while the state write of its handle_event call is still to
   come. *)
RECURSIVE StateAfterAll(_)
StateAfterAll(messages) ==
    IF messages = <<>> THEN Null
    ELSE LET before == StateAfterAll(SubSeq(messages, 1, Len(messages) - 1))
             last == messages[Len(messages)]
         IN  IF last.type = "Event" THEN StateAfterEvent(before, last.event)
                                    ELSE before

StateWriteBeforeBroadcast ==
    /\ state = IF pc[1] = "bm_history" /\ frame[1].op = "handle_event"
               THEN StateAfterEvent(StateAfterAll(message_history), frame[1].msg.event)
               ELSE StateAfterAll(message_history)
    /\ Range(chan) \subseteq Range(message_history)
    /\ \A r \in 1..Len(received) : \A i \in 1..Len(received[r]) :
          received[r][i].msg \in Range(message_history)

(* a subscriber has received the Event of a presenter:sync that followed a
   slide:change, and the state is the synced one *)
SyncEventReceived ==
    /\ Len(received) >= 1
    /\ Len(received[1]) = 3
    /\ received[1][2].msg.type = "Event"
    /\ received[1][2].msg.event.name = "slide:change"
    /\ received[1][3].msg.type = "Event"
    /\ received[1][3].msg.event = EventData("presenter:sync", GoodSync, 1)
    /\ state = ToValue(FromValue(GoodSync))

(* C13: an ensure_room call that begins when its id is registered returns the
   id at once and leaves the registry and every Room as they are, so the Room
   the first call registered stays, with its roster and history; a call that
   begins when the id is not registered returns the id with one new Room
   registered under it and nothing else changed. *)
LastOp == ops'[Len(ops')]

EnsureRoomIdempotent ==
    [][/\ (Len(ops') > Len(ops) /\ LastOp.op = "ensure_room" /\ pc' = pc) =>
            /\ LastOp.room_id \in DOMAIN rooms
            /\ LastOp.returned = LastOp.room_id
            /\ rooms' = rooms
            /\ heap' = heap
       /\ \A t \in Tasks :
            /\ (pc[t] = "idle" /\ pc'[t] = "er_insert") =>
                  frame'[t].room_id \notin DOMAIN rooms
            /\ (pc[t] = "er_insert" /\ pc'[t] = "idle") =>
                  /\ LastOp.returned = frame[t].room_id
                  /\ DOMAIN rooms' = DOMAIN rooms \cup {frame[t].room_id}
                  /\ rooms'[frame[t].room_id] = frame[t].room
                  /\ heap' = heap]_vars

(* ensure_room, a connection, ensure_room again: one Room was ever made, it is
   the one registered, and the connection's client and Join are in it *)
SecondEnsureKeptRoom ==
    /\ Len(ops) = 3
    /\ ops[1] = [op |-> "ensure_room", room_id |-> "r1", returned |-> "r1"]
    /\ ops[2].op = "websocket_handler"
    /\ ops[3] = [op |-> "ensure_room", room_id |-> "r1", returned |-> "r1"]
    /\ Len(heap) = 1
    /\ rooms = [x \in {"r1"} |-> 1]
    /\ DOMAIN heap[1].clients = {ops[2].client_id}
    /\ heap[1].message_history = <<Join("audience", ops[2].client_id)>>

(* C14: when two connections to the same room id, unknown before, have been
   set up, both clients are in the roster of one Room, the one registered
   under the id. *)
ConcurrentConnectsShareRoom ==
    (/\ AllIdle
     /\ Len(ops) = 2
     /\ ops[1].op = "websocket_handler"
     /\ ops[2].op = "websocket_handler") =>
        /\ ops[1].room = ops[2].room
        /\ rooms["r1"] = ops[1].room
        /\ {ops[1].client_id, ops[2].client_id} \subseteq
                DOMAIN heap[rooms["r1"]].clients

(* C15: a turn of the reaper's loop never puts on to_remove a room whose roster
   is not empty when the turn looks at it, however old the room; only rooms of
   to_remove leave the registry, the rooms that stay are registered as before,
   and no Room is changed. *)
IsScanStep(t) == pc[t] = "cl_scan" /\ (pc'[t] # "cl_scan" \/ frame'[t] # frame[t])

Scanned(t) ==
    IF pc'[t] = "cl_scan" THEN frame[t].todo \ frame'[t].todo ELSE frame[t].todo

ToRemoveAfter(t) ==
    IF pc'[t] = "cl_scan" THEN frame'[t].to_remove ELSE DOMAIN rooms \ DOMAIN rooms'

CleanupKeepsOccupiedRooms ==
    [][\A t \in Tasks :
          IsScanStep(t) =>
              /\ \A id \in Scanned(t) :
                    DOMAIN heap[rooms[id]].clients # {} => id \notin ToRemoveAfter(t)
              /\ ToRemoveAfter(t) \subseteq frame[t].to_remove \cup Scanned(t)
              /\ pc'[t] = "cl_scan" => rooms' = rooms
              /\ \A id \in DOMAIN rooms' : id \in DOMAIN rooms /\ rooms'[id] = rooms[id]
              /\ heap' = heap]_vars

(* the reaper ran on two rooms made 31 minutes before: the empty one is gone,
   the one with a client is registered as before *)
OccupiedOldRoomKept ==
    /\ Len(ops) = 3
    /\ ops[3] = [op |-> "cleanup_empty_rooms", removed |-> {"r2"},
                 at |-> 31 * MsPerMinute]
    /\ DOMAIN rooms = {"r1"}
    /\ Len(heap) = 2
    /\ heap[rooms["r1"]].created_at = 0
    /\ DOMAIN heap[rooms["r1"]].clients # {}
    /\ heap[2].created_at = 0
    /\ DOMAIN heap[2].clients = {}

(* C16: a turn of the reaper's loop puts the room it looks at on to_remove
   exactly when the room's roster is empty and now - created_at is more than
   30 minutes. *)
CleanupRemovesPastThirtyMinutes ==
    [][\A t \in Tasks :
          IsScanStep(t) =>
              \A id \in Scanned(t) :
                  id \in ToRemoveAfter(t) <=>
                      /\ DOMAIN heap[rooms[id]].clients = {}
                      /\ now - heap[rooms[id]].created_at >
                            InactiveMinutes * MsPerMinute]_vars

(* C17: a room leaves the registry only if none of its clients left less than
   30 minutes before. *)
CleanupWaitsForInactivity ==
    [][\A t \in Tasks :
          IsScanStep(t) =>
              \A id \in DOMAIN rooms \ DOMAIN rooms' :
                  \A i \in 1..Len(ops) :
                      (ops[i].op = "remove_client" /\ ops[i].room = rooms[id]) =>
                          now - ops[i].at >= InactiveMinutes * MsPerMinute]_vars

(* C18: a replay of three or more messages, made with recording on and nothing
   else going on, is re-recorded at the moments of its broadcasts; the i-th of
   them is made (ti - t0) / c after the first, which is made when the replay
   begins. *)
ReplayKeepsTiming ==
    (/\ AllIdle
     /\ Len(ops) >= 2
     /\ ops[Len(ops) - 1].op = "start_recording"
     /\ ops[Len(ops)].op = "replay_recording"
     /\ Len(ops[Len(ops)].messages) >= 3) =>
        LET call == ops[Len(ops)]
        IN  /\ Len(recorded_messages) = Len(call.messages)
            /\ \A i \in 1..Len(call.messages) :
                  recorded_messages[i].session_time - recorded_messages[1].session_time
                      = DelayMs(call.messages[i].session_time,
                                call.messages[1].session_time, call.time_compression)

(* C19: with one caller, the channel holds the messages of the completed calls
   in the order of the calls, each replayed list in its own order and an empty
   list giving nothing, then the messages the call in flight has sent so far;
   the history holds the same and the message being broadcast; the recording
   holds what went into the history since recording was switched on. *)
MessagesOf(call) ==
    IF call.op = "replay_recording"
    THEN [i \in 1..Len(call.messages) |-> call.messages[i].message]
    ELSE IF call.op \in {"handle_event", "add_client"} THEN <<call.msg>> ELSE <<>>

RECURSIVE MessagesOfAll(_)
MessagesOfAll(calls) ==
    IF calls = <<>> THEN <<>>
    ELSE MessagesOfAll(SubSeq(calls, 1, Len(calls) - 1)) \o MessagesOf(calls[Len(calls)])

SentInFlight ==
    IF frame[1].op = "replay_recording"
    THEN [i \in 1..(Len(frame[1].messages) - Len(frame[1].queue)) |->
            frame[1].messages[i].message]
    ELSE <<>>

InHistoryInFlight ==
    IF pc[1] \in {"bm_flag", "bm_record", "bm_push", "bm_send"}
    THEN <<frame[1].msg>> ELSE <<>>

LastStart ==
    LET starts == {i \in 1..Len(ops) : ops[i].op = "start_recording"}
    IN  IF starts = {} THEN 0 ELSE CHOOSE i \in starts : \A j \in starts : j <= i

ReplayBroadcastsList ==
    /\ chan = MessagesOfAll(ops) \o SentInFlight
    /\ message_history = chan \o InHistoryInFlight
    /\ [i \in 1..Len(recorded_messages) |-> recorded_messages[i].message] =
          IF LastStart = 0 THEN <<>>
          ELSE MessagesOfAll(SubSeq(ops, LastStart + 1, Len(ops))) \o SentInFlight
                  \o (IF pc[1] = "bm_send" THEN InHistoryInFlight ELSE <<>>)

(* a replay of the three-message list and a replay of the empty list, in
   either order, after a live event: four messages in the channel *)
ListAndEmptyListReplayed ==
    /\ AllIdle
    /\ Len(ops) = 3
    /\ ops[1].op = "handle_event"
    /\ ops[2].op = "replay_recording"
    /\ ops[2].messages = Take
    /\ ops[3].op = "replay_recording"
    /\ ops[3].messages = <<>>
    /\ chan = <<ops[1].msg, Take[1].message, Take[2].message, Take[3].message>>
    /\ message_history = chan

(* C20: no step of a replay_recording call changes the state. *)
IsReplayStep(t) ==
    /\ pc'[t] # pc[t]
    /\ \/ frame[t].op = "replay_recording"
       \/ pc[t] = "idle" /\ frame'[t].op = "replay_recording"

ReplayLeavesState ==
    [][(\/ \E t \in Tasks : IsReplayStep(t)
        \/ /\ Len(ops') > Len(ops)
           /\ LastOp.op = "replay_recording") => state' = state]_vars

(* a recorded slide:change, fragment:change and presenter:sync were replayed
   after a live slide:change: the state is still the one the live event left *)
ReplayedOverLiveState ==
    /\ AllIdle
    /\ Len(ops) = 2
    /\ ops[1].op = "handle_event"
    /\ ops[2].op = "replay_recording"
    /\ ops[2].messages = Take
    /\ chan = <<ops[1].msg, Take[1].message, Take[2].message, Take[3].message>>
    /\ state = Obj([currentSlide |-> Str("s2")])

---------------------------------------------------------------------------
(* C21: the Join of add_client(c, role) is published with c in the roster, and
   it reaches every subscriber that was there before the call as well as the
   handle the call returns to c. *)
JoinPublished(c) == \E i \in 1..Len(chan) : chan[i] = Join("audience", c)

JoinReceived(r, c) ==
    /\ r \in 1..Len(received)
    /\ \E k \in 1..Len(received[r]) : received[r][k].msg = Join("audience", c)

JoinReachesSubscribers ==
    /\ [](\A c \in Receivers : JoinPublished(c) => c \in DOMAIN clients)
    /\ \A c \in Receivers : \A r \in 1..c : JoinPublished(c) ~> JoinReceived(r, c)

(* the second client's Join has reached the first client's handle and its own *)
JoinSeenByOldAndNew ==
    /\ Len(rx) = 2
    /\ DOMAIN clients = {1, 2}
    /\ JoinReceived(1, 2)
    /\ JoinReceived(2, 2)
    /\ ~JoinReceived(2, 1)

(* C22: the handle of add_client delivers none of the messages that were
   published (and so in message_history) before its subscription was taken.
   With one caller the calls publish one message each in the order of ops, so
   the subscription of the call that ends up k-th in ops had k - 1 messages
   before it. *)
CallOf(r) ==
    IF \E k \in 1..Len(ops) : ops[k].msg = Join("audience", r)
    THEN CHOOSE k \in 1..Len(ops) : ops[k].msg = Join("audience", r)
    ELSE Len(ops) + 1

IsInsertOfKnownId(t) ==
    /\ pc[t] = "ac_insert"
    /\ pc'[t] # pc[t]
    /\ frame[t].client.id \in DOMAIN clients

DuplicateIdAddsEntry ==
    [][\A t \in Tasks : IsInsertOfKnownId(t) =>
            /\ Cardinality(DOMAIN clients') = Cardinality(DOMAIN clients) + 1
            /\ clients'[frame[t].client.id] = clients[frame[t].client.id]]_vars

(* C23: add_client with an id that is in the roster replaces that id's entry
   with the new RoomClient; the roster keeps its size and its other entries. *)
DuplicateIdReplacesEntry ==
    [][\A t \in Tasks : IsInsertOfKnownId(t) =>
            /\ DOMAIN clients' = DOMAIN clients
            /\ clients'[frame[t].client.id] = frame[t].client
            /\ \A x \in DOMAIN clients :
                    x # frame[t].client.id => clients'[x] = clients[x]]_vars

(* id 1 joined as audience and then again as presenter: two subscriptions and
   two Joins, one roster entry, the presenter's *)
SecondJoinReplacedFirst ==
    /\ AllIdle
    /\ Len(ops) = 2
    /\ ops[1] = [op |-> "add_client", msg |-> Join("audience", 1)]
    /\ ops[2] = [op |-> "add_client", msg |-> Join("presenter", 1)]
    /\ Len(rx) = 2
    /\ DOMAIN clients = {1}
    /\ clients[1].role = "presenter"

(* C24: remove_client(id) takes id's entry out of the roster when it is there
   and changes nothing when it is not; the other entries, the history, the
   recording flag and buffer and the state stay, and nothing is published. *)
IsRemoveClient(client_id) ==
    /\ Len(ops') = Len(ops) + 1
    /\ ops'[Len(ops')] = [op |-> "remove_client", client_id |-> client_id]

RemoveClientOnlyRoster ==
    [][\A client_id \in ClientIds : IsRemoveClient(client_id) =>
            /\ DOMAIN clients' = (DOMAIN clients) \ {client_id}
            /\ \A x \in DOMAIN clients' : clients'[x] = clients[x]
            /\ client_id \notin DOMAIN clients => clients' = clients
            /\ UNCHANGED <<message_history, is_recording, recorded_messages, state,
                           chan, rx, received>>]_vars

(* clients 1 and 2 joined, 1 was removed: 2 is still in the roster, the two
   Joins are all that was published *)
RemovedOneOfTwo ==
    /\ AllIdle
    /\ Len(ops) = 3
    /\ ops[3] = [op |-> "remove_client", client_id |-> 1]
    /\ DOMAIN clients = {2}
    /\ Len(chan) = 2
    /\ message_history = chan

(* C25 as stated: a connection whose receiver has overflowed stays in the
   select loop and in the roster when it next takes from the receiver. *)
IsRecvOnOverflow(c) == Lagged(chan, rx[c]) /\ rx'[c] # rx[c]

LaggedConnectionStaysActive ==
    [][\A c \in DOMAIN conns : IsRecvOnOverflow(c) =>
            /\ conns'[c].status = "Active"
            /\ c \in DOMAIN clients']_vars

(* C26: broadcast_message never waits for a subscriber: the send of a call is
   always possible, whatever the subscribers have left unread, and every
   finished call's message is in the channel; and a subscriber whose unread
   messages never outgrew the channel's buffer has been handed every message
   since its subscription once, in the order of the sends. *)
BroadcastNeverWaits ==
    /\ \A t \in Tasks : pc[t] = "bm_send" => ENABLED BmSend(t)
    /\ \A k \in 1..Len(ops) : chan[BufferLen + k] = ops[k].msg
    /\ \A c \in DOMAIN conns :
            conns[c].status = "Active" /\ ~Lagged(chan, rx[c]) =>
                received[c] = [i \in 1..(rx[c].next - 1) |-> [seq |-> i, msg |-> chan[i]]]

(* three events were published past a subscriber that took two messages in
   the meantime and now has a full buffer of unread ones *)
PublishedPastFullBuffer ==
    /\ AllIdle
    /\ Len(ops) = 3
    /\ conns[1].status = "Active"
    /\ Len(received[1]) = 3
    /\ Len(chan) - rx[1].next + 1 = BufferLen

(* C27: a connection whose room is not in the registry is sent one error Event
   and is over: no client id, no roster entry, nothing in any history, nothing
   published, no Room made or registered. *)
IsFailedLookup(t) ==
    /\ pc[t] = "ws_get_room"
    /\ pc'[t] # pc[t]
    /\ GetRoom(frame[t].room_id) = 0

ErrorEventText ==
    Text(Obj([type |-> Str("event"),
              event |-> Obj([name |-> Str("error"),
                             data |-> Obj([message |-> Str("Room not found")]),
                             client_id |-> Str("system")]),
              timestamp |-> Num(now)]))

FailedLookupOnlySendsError ==
    [][\A t \in Tasks : IsFailedLookup(t) =>
            /\ pc'[t] = "idle"
            /\ Len(ops') = Len(ops) + 1
            /\ ops'[Len(ops')].room_id = frame[t].room_id
            /\ ops'[Len(ops')].room = 0
            /\ ops'[Len(ops')].client_id = 0
            /\ ops'[Len(ops')].sent = <<ErrorEventText>>
            /\ UNCHANGED <<rooms, heap, roomVars, chan, rx, conns>>]_vars

(* r1 is registered and has a client; a connection for r2 was turned away, and
   r1's Room is still the only one *)
UnknownRoomTurnedAway ==
    /\ AllIdle
    /\ Len(ops) = 3
    /\ ops[3].op = "handle_websocket_connection"
    /\ ops[3].room_id = "r2"
    /\ ops[3].room = 0
    /\ Len(ops[3].sent) = 1
    /\ DOMAIN rooms = {"r1"}
    /\ Len(heap) = 1
    /\ Cardinality(DOMAIN heap[1].clients) = 1
    /\ Len(heap[1].message_history) = 1

(* C28: a connection that enters the select loop is sent a State message with
   the state of that moment when the state is not null, and nothing when it is
   null; the State message goes to that socket alone, and none is ever in the
   history or in the channel. *)
IsEnter(c) == c \notin DOMAIN conns /\ c \in DOMAIN conns'

StateText == Text(Obj([type |-> Str("state"), data |-> state, timestamp |-> Num(now)]))

StateSentOnEntry ==
    /\ [][\A c \in 1..MaxWsCalls : IsEnter(c) =>
            /\ conns'[c].status = "Active"
            /\ conns'[c].sent = IF state = Null THEN <<>> ELSE <<StateText>>
            /\ \A d \in DOMAIN conns : conns'[d] = conns[d]
            /\ UNCHANGED <<roomVars, chan, rx, received>>]_vars
    /\ [](\A i \in 1..Len(chan) : chan[i].type # "State")
    /\ [](\A i \in 1..Len(message_history) : message_history[i].type # "State")

(* client 1 connected to a room without state and changed the slide, client 2
   connected after that: 2 was sent the state first and then its Join, 1 was
   sent the two Joins and the Event *)
LateJoinerSentState ==
    /\ AllIdle
    /\ DOMAIN conns = {1, 2}
    /\ state = Obj([currentSlide |-> Str("s2")])
    /\ Len(chan) = 3
    /\ Len(conns[1].sent) = 3
    /\ \A i \in 1..3 : conns[1].sent[i] = Text(SerializeMessage(chan[i]))
    /\ Len(conns[2].sent) = 2
    /\ conns[2].sent[1] = StateText
    /\ conns[2].sent[2] = Text(SerializeMessage(Join("audience", 2)))

(* C29: a connection that has left its select loop, whichever way, gets to
   remove_client and returns; from then on its client id is not in the roster
   and its handler does nothing more. *)
Status(c) == IF c \in DOMAIN conns THEN conns[c].status ELSE "Connecting"

LeavesLoop(c) == Status(c) = "Active" /\ Status(c)' # "Active"

ConnectionEndsDeregistered ==
    /\ \A c \in {1} : Status(c) = "Closing" ~> Status(c) = "Closed"
    /\ [](\A c \in DOMAIN conns : Status(c) = "Closed" => c \notin DOMAIN clients)
    /\ [][\A c \in DOMAIN conns :
            /\ LeavesLoop(c) => Status(c)' = "Closing"
            /\ Status(c) = "Closed" =>
                    /\ conns'[c] = conns[c]
                    /\ rx'[c] = rx[c]
                    /\ received'[c] = received[c]]_vars

(* the connection's receiver overflowed, its handler left the loop and
   returned: the client is out of the roster, with messages left unread *)
ClosedAfterOverflow ==
    /\ Status(1) = "Closed"
    /\ 1 \notin DOMAIN clients
    /\ conns[1].read = <<>>
    /\ rx[1].next > received[1][Len(received[1])].seq + 1
    /\ rx[1].next <= Len(chan)

(* C30: an inbound Heartbeat is answered with one Heartbeat on the socket it
   came from; no other socket is sent anything, no call is made on the room,
   and roster, history, recording, state and channel are as before. *)
HeartbeatText == Text(Obj([type |-> Str("heartbeat")]))

IsHeartbeatRead(c) ==
    /\ Len(conns'[c].read) = Len(conns[c].read) + 1
    /\ conns'[c].read[Len(conns'[c].read)] = HeartbeatText

HeartbeatOnlyReplies ==
    [][\A c \in DOMAIN conns : IsHeartbeatRead(c) =>
            /\ conns'[c].sent = Append(conns[c].sent, HeartbeatText)
            /\ conns'[c].status = conns[c].status
            /\ \A d \in DOMAIN conns : d # c => conns'[d] = conns[d]
            /\ UNCHANGED <<roomVars, chan, rx, received, pc, frame, ops>>]_vars

(* client 1 sent a Heartbeat: its socket has the two Joins and the reply,
   client 2's socket and the room have what they had *)
HeartbeatAnswered ==
    /\ conns[1].read = <<HeartbeatText>>
    /\ Len(conns[1].sent) = 3
    /\ conns[1].sent[3] = HeartbeatText
    /\ conns[2].read = <<>>
    /\ conns[2].sent = <<Text(SerializeMessage(Join("audience", 2)))>>
    /\ chan = <<Join("audience", 1), Join("audience", 2)>>
    /\ message_history = chan
    /\ DOMAIN clients = {1, 2}
    /\ state = Null

---------------------------------------------------------------------------
(* C31: a Join, State or Ack sent by the client, text that is no RoomMessage
   and a binary frame change nothing in the room, nothing is published or sent
   to any socket, and the connection stays in its loop. *)
IsOtherFrame(ws_msg) ==
    \/ ws_msg.ws = "Binary"
    \/ /\ ws_msg.ws = "Text"
       /\ \/ ~IsObject(ws_msg.json)
          \/ ws_msg.json.o["type"] \in {Str("join"), Str("state"), Str("ack")}

IsOtherFrameRead(c) ==
    /\ Len(conns'[c].read) = Len(conns[c].read) + 1
    /\ IsOtherFrame(conns'[c].read[Len(conns'[c].read)])

OtherFramesChangeNothing ==
    [][\A c \in DOMAIN conns : IsOtherFrameRead(c) =>
            /\ conns'[c].status = "Active"
            /\ conns'[c].sent = conns[c].sent
            /\ \A d \in DOMAIN conns : d # c => conns'[d] = conns[d]
            /\ UNCHANGED <<roomVars, chan, rx, received, pc, frame, ops>>]_vars

(* client 1 sent a State message of its own and then text that is no message:
   the room has no state, and both connections are as they were *)
ClientStateAndGarbageDropped ==
    /\ conns[1].read =
            <<Text(Obj([type |-> Str("state"),
                        data |-> Obj([currentSlide |-> Str("s9")]),
                        timestamp |-> Num(0)])),
              Text(Str("garbage"))>>
    /\ conns[1].status = "Active"
    /\ Len(conns[1].sent) = 2
    /\ conns[2].read = <<>>
    /\ state = Null
    /\ Len(chan) = 2
    /\ message_history = chan
    /\ DOMAIN clients = {1, 2}

(* C32: a connection that has read its receiver to the end has been handed
   every state-changing Event of the channel, except those whose state write
   was done when the handler read the state for its first message.  A write
   that was done shows in that snapshot as the key it set, or as the fields of
   a presenter:sync that has replaced the state since. *)
Snapshot(c) ==
    IF conns[c].sent # <<>> /\ conns[c].sent[1].json.o["type"] = Str("state")
    THEN conns[c].sent[1].json.o["data"]
    ELSE Null

Reflected(event, snapshot) ==
    /\ IsObject(snapshot)
    /\ IF event.name = "presenter:sync"
       THEN PresenterFields \subseteq Keys(snapshot)
       ELSE \/ UpdateKey(event) \in Keys(snapshot)
            \/ PresenterFields \subseteq Keys(snapshot)

Delivered(c, i) == \E k \in 1..Len(received[c]) : received[c][k].seq = i

LateJoinerMissesNothing ==
    \A c \in DOMAIN conns :
        rx[c].next > Len(chan) =>
            \A i \in 1..Len(chan) :
                chan[i].type = "Event" =>
                    Delivered(c, i) \/ Reflected(chan[i].event, Snapshot(c))

(* a slide:change was published while client 1 was being set up, before its
   subscription was taken in the channel's order of sends: 1 was not handed
   the Event and was sent the slide in its snapshot *)
SlideInSnapshotOnly ==
    /\ AllIdle
    /\ Len(chan) = 2
    /\ chan[1].type = "Event"
    /\ chan[1].event.name = "slide:change"
    /\ chan[2] = Join("audience", 1)
    /\ DOMAIN conns = {1}
    /\ Snapshot(1) = Obj([currentSlide |-> Str("s2")])
    /\ ~Delivered(1, 1)
    /\ Delivered(1, 2)
    /\ rx[1].next > Len(chan)

(* C33 as stated: a Room with a client in its roster is the Room that the
   registry holds under its id. *)
ClientsOnlyInRegisteredRooms ==
    \A room \in 1..Len(heap) :
        DOMAIN heap[room].clients # {} =>
            /\ heap[room].id \in DOMAIN rooms
            /\ rooms[heap[room].id] = room

(* C34: no task waits for ever for a lock.  A call in flight that cannot go on
   waits for a guard; the calls that can go on are over after finitely many
   steps, so a wait lasts for ever exactly when a state is reached in which
   calls are in flight and none of them can go on.  No such state is reached. *)
NoLockDeadlock ==
    (\E t \in Tasks : pc[t] # "idle") =>
        \E t \in Tasks : pc[t] # "idle" /\ ENABLED LockStep(t)

(* start_recording holds the flag's guard and is about to take the buffer's,
   while a broadcast holds the buffer's guard *)
NestedLocksBothHeld ==
    /\ pc[1] = "bm_push"
    /\ recorded_lock = 1
    /\ pc[2] = "sr_clear"
    /\ is_recording_lock = 2

(* C35: every replay_recording call returns, and when no call is in flight the
   channel holds one message per handle_event call and N per replay of a list
   of N messages, whatever was recorded while the replay ran. *)
ReplayEndsAfterItsList ==
    /\ [](AllIdle => Len(chan) = Len(MessagesOfAll(ops)))
    /\ \A t \in Tasks : (frame[t].op = "replay_recording") ~> (pc[t] = "idle")

(* the recording of two events replayed while recording is on, a live event
   landing between the two: three broadcasts, and a recording of five *)
OwnRecordingReplayed ==
    /\ AllIdle
    /\ Len(ops) = 2
    /\ ops[1].op = "handle_event"
    /\ ops[2].op = "replay_recording"
    /\ ops[2].messages = OwnTake
    /\ chan = <<OwnTake[1].message, ops[1].msg, OwnTake[2].message>>
    /\ Len(recorded_messages) = 5
    /\ is_recording

(* C36: with recording on and one caller, every message a replay broadcasts is
   appended to the recording, stamped with the room's age at that moment of the
   replay; after start_recording and a replay of N messages the recording
   holds the N messages in order. *)
IsReplayPush(t) ==
    pc[t] = "bm_push" /\ pc'[t] # "bm_push" /\ frame[t].op = "replay_recording"

ReplayedAreRecordedAnew ==
    /\ [][IsReplayPush(1) =>
            recorded_messages' =
                Append(recorded_messages,
                       RecordedMessage(frame[1].msg, now, now - created_at))]_vars
    /\ [](AllIdle /\ Len(ops) >= 2 /\ ops[Len(ops) - 1].op = "start_recording"
                  /\ ops[Len(ops)].op = "replay_recording" =>
            [i \in 1..Len(recorded_messages) |-> recorded_messages[i].message]
                = MessagesOf(ops[Len(ops)]))

(* the take recorded at 5, 7 and 9 ms, replayed in real time into the new
   room: recorded again at 0, 2 and 6 ms *)
TakeRecordedAtReplayTime ==
    /\ AllIdle
    /\ Len(ops) = 2
    /\ ops[1].op = "start_recording"
    /\ ops[2].op = "replay_recording"
    /\ ops[2].messages = Take
    /\ ops[2].time_compression = RealTime
    /\ [i \in 1..Len(recorded_messages) |-> recorded_messages[i].message]
          = [i \in 1..Len(Take) |-> Take[i].message]
    /\ [i \in 1..Len(recorded_messages) |-> recorded_messages[i].session_time]
          = <<0, 2, 6>>
    /\ [i \in 1..Len(Take) |-> Take[i].session_time] = <<5, 7, 9>>

(* C37: while a replay sleeps between two messages it holds no guard of the
   room, and a live call in flight can take its next step. *)
Sleeping(t) == pc[t] = "rp_sleep"

SleepingReplayBlocksNobody ==
    Sleeping(1) =>
        /\ is_recording_lock # 1
        /\ recorded_lock # 1
        /\ pc[2] # "idle" => ENABLED LiveStep(2)

(* the replay has sent its first message and sleeps until 4 ms; at 3 ms a live
   slide change was made, and it is in the history and with client 1 already *)
LiveEventDuringSleep ==
    /\ Sleeping(1)
    /\ now = 3
    /\ frame[1].wake = 4
    /\ Len(ops) = 1
    /\ ops[1].op = "handle_event"
    /\ ops[1].msg.timestamp = 3
    /\ chan = <<OwnTake[1].message, ops[1].msg>>
    /\ message_history[Len(message_history)] = ops[1].msg
    /\ [i \in 1..Len(received[1]) |-> received[1][i].msg] = chan

(* C38: in a replay made right after start_recording, message i is broadcast
   (ti - t0) / c ms, the quotient truncated, after the one before it, and the
   first without delay: when the two calls are the whole run, at 0 ms.  For
   two messages the second goes out (t1 - t0) / c after the first. *)
ReplaySleepsBeforeEach ==
    (/\ AllIdle
     /\ Len(ops) >= 2
     /\ ops[Len(ops) - 1].op = "start_recording"
     /\ ops[Len(ops)].op = "replay_recording") =>
        LET call == ops[Len(ops)]
        IN  /\ Len(recorded_messages) = Len(call.messages)
            /\ \A i \in 2..Len(call.messages) :
                  recorded_messages[i].session_time
                        - recorded_messages[i - 1].session_time
                    = ((call.messages[i].session_time - call.messages[1].session_time)
                          * call.time_compression.den) \div call.time_compression.num
            /\ Len(ops) = 2 => recorded_messages[1].session_time = 0

(* [m0(t=0), m1(t=1000)] replayed at compression 2: broadcast at 0 and 500 ms *)
SecondApartAtDoubleSpeed ==
    /\ AllIdle
    /\ Len(ops) = 2
    /\ ops[1].op = "start_recording"
    /\ ops[2].op = "replay_recording"
    /\ ops[2].messages = SecondApart
    /\ ops[2].time_compression = DoubleTime
    /\ [i \in 1..Len(recorded_messages) |-> recorded_messages[i].session_time]
          = <<0, 500>>
    /\ now = 500

(* C39: a recording request for an id the registry does not hold answers
   NOT_FOUND and leaves the registry and every Room as they were; for a
   registered id it answers OK, start switches that Room's flag on and empties
   its buffer, stop switches the flag off, the dump returns the buffer's lines
   and changes nothing; no other Room changes and the registry stays. *)
RequestOps == {"start_recording", "stop_recording", "get_room_dump"}

IsAnswer == Len(ops') = Len(ops) + 1 /\ LastOp.op \in RequestOps

IsLookupFound == \E t \in Tasks : pc[t] = "idle" /\ pc'[t] = "rq_room"

RoomAfter(op, room) ==
    CASE op = "start_recording" ->
            [room EXCEPT !.is_recording = TRUE, !.recorded_messages = <<>>]
      [] op = "stop_recording" -> [room EXCEPT !.is_recording = FALSE]
      [] op = "get_room_dump" -> room

RequestsActOnRegisteredRooms ==
    [][/\ IsLookupFound => UNCHANGED mgrVars
       /\ IsAnswer =>
            /\ rooms' = rooms
            /\ IF LastOp.room_id \notin DOMAIN rooms
               THEN /\ LastOp.status = 404
                    /\ heap' = heap
               ELSE /\ LastOp.status = 200
                    /\ heap' = [heap EXCEPT ![rooms[LastOp.room_id]] =
                                    RoomAfter(LastOp.op, @)]
                    /\ LastOp.op = "get_room_dump" =>
                          LastOp.body =
                            ExportLines(heap[rooms[LastOp.room_id]].recorded_messages)
      ]_vars

(* a connection to r1, recording started, a second connection, the dump of r1
   with the second Join in it, and a dump of r2 turned away *)
DumpOfOneAndNotFound ==
    /\ AllIdle
    /\ Len(ops) = 5
    /\ ops[1].op = "websocket_handler"
    /\ ops[2] = [op |-> "start_recording", room_id |-> "r1", status |-> 200,
                 body |-> <<>>]
    /\ ops[3].op = "websocket_handler"
    /\ ops[4].op = "get_room_dump"
    /\ ops[4].room_id = "r1"
    /\ ops[4].status = 200
    /\ Len(ops[4].body) = 1
    /\ ops[5] = [op |-> "get_room_dump", room_id |-> "r2", status |-> 404,
                 body |-> <<>>]
    /\ DOMAIN rooms = {"r1"}
    /\ heap[1].is_recording
    /\ Len(heap) = 1

(* C40 as stated: every entry of the recording has session_time equal to its
   recorded_at less the room's created_at, in ms. *)
SessionTimeIsRecordedAge ==
    \A i \in 1..Len(recorded_messages) :
        recorded_messages[i].session_time
            = recorded_messages[i].recorded_at - created_at

============================================================================
